---- MODULE Spec2Model ----
(***************************************************************************)
(* Token acquisition and caching core of auth0-mgmt-api                    *)
(* (src/src/client.rs): ManagementClient::get_token with its read/write    *)
(* locked token slot, its single-permit refresh semaphore and its retry    *)
(* loop, run by several concurrent callers over cloned handles.            *)
(*                                                                         *)
(* Time is a discrete clock of whole seconds (Instant::now()); delays,     *)
(* retry-after values and expires_in are whole seconds.                    *)
(***************************************************************************)
EXTENDS Integers, Sequences, FiniteSets, TLC

\* ------------------------------------------------------------ bounds
NumCallers == 2
NumClients == 2
MaxTime == 2
MaxRetries == 2
MaxRetryTime == 5
MaxCalls == 2
MaxIdLen == 3

\* ------------------------------------------------------------ program constants
SafetyMargin == 60
SemaphorePermits == 1

\* Option<T>: None or Some(x), as a sequence of length at most one.
None == <<>>
Some(x) == <<x>>
IsSome(o) == Len(o) = 1
Unwrap(o) == o[1]

Min(a, b) == IF a <= b THEN a ELSE b

Callers == 1..NumCallers
Clients == 1..NumClients

\* ------------------------------------------------------------ inputs
\* RetryConfig values handed to ManagementClientBuilder::retry_config.
RetryConfigs ==
    [max_retries : 0..MaxRetries, initial_delay : {0, 1, 3},
     max_delay : {2}, multiplier : {2}]

\* The configurations of the runs with several callers.
SharedConfigs ==
    [max_retries : {0, 1}, initial_delay : {0}, max_delay : {2}, multiplier : {2}]

\* impl Default for RetryConfig, in whole seconds where it is used here.
DefaultRetryConfig ==
    [max_retries |-> 3, initial_delay |-> 0, max_delay |-> 10, multiplier |-> 2]

AccessTokens == {"t1", "t2"}
ExpiresIns == {0, 60, 61, 62}

\* Response bodies: json says whether the body is a JSON object at all; the
\* other fields are the members the deserializers look for.
Body(json, at, ei, tt, msg, err) ==
    [json |-> json, access_token |-> at, expires_in |-> ei, token_type |-> tt,
     message |-> msg, error |-> err]

Garbage == Body(FALSE, None, None, None, None, None)
EmptyObject == Body(TRUE, None, None, None, None, None)
MissingTokenType == Body(TRUE, Some("t1"), Some(61), None, None, None)
TokenBodies ==
    {Body(TRUE, Some(t), Some(e), Some("Bearer"), None, None) :
        t \in AccessTokens, e \in ExpiresIns}
ErrorBodies ==
    {Body(TRUE, None, None, None, m, e) :
        m \in {None, Some("msg")}, e \in {None, Some("access_denied")}}
Bodies == {Garbage, MissingTokenType} \cup TokenBodies \cup ErrorBodies

\* retry-after header: absent, or present with a text value.
RetryAfterHeaders == {None, Some("0"), Some("1"), Some("3"), Some("soon")}

\* reqwest::Error kinds that send() can produce.
TransportErrors == {"timeout", "connect", "request", "redirect", "builder"}

HttpErr(e) ==
    [ok |-> FALSE, err |-> e, status |-> 0, retry_after |-> None, body |-> Garbage]
HttpResp(s, h, b) ==
    [ok |-> TRUE, err |-> "", status |-> s, retry_after |-> h, body |-> b]

\* What one POST to the token endpoint can come back with: a transport
\* failure, or a status with headers and a body.
HttpResults ==
    {HttpErr(e) : e \in TransportErrors}
    \cup {HttpResp(200, None, b) : b \in Bodies}
    \cup {HttpResp(201, None, b) :
            b \in {Garbage, Body(TRUE, Some("t2"), Some(62), Some("Bearer"), None, None)}}
    \cup {HttpResp(s, None, b) :
            s \in {400, 401, 500, 502, 504}, b \in ErrorBodies \cup {Garbage}}
    \cup {HttpResp(s, h, b) :
            s \in {429, 503}, h \in RetryAfterHeaders,
            b \in {Garbage, EmptyObject, Body(TRUE, None, None, None, Some("msg"), None)}}
    \cup {HttpResp(s, Some("3"), Garbage) : s \in {502, 504}}

\* ------------------------------------------------------------ errors, results
\* Auth0Error values; at is the attempt index whose response produced the
\* value (it identifies the error object, the Rust value has no such field).
Http(e, k) == [kind |-> "Http", message |-> e, at |-> k]
Authentication(m, k) == [kind |-> "Authentication", message |-> m, at |-> k]

Ok(t) == [tag |-> "Ok", token |-> t, kind |-> "", message |-> "", at |-> -1]
Err(e) == [tag |-> "Err", token |-> "", kind |-> e.kind, message |-> e.message,
           at |-> e.at]
Cancelled == [tag |-> "Cancelled", token |-> "", kind |-> "", message |-> "",
              at |-> -1]

\* format!("Token request failed with status {}", status.as_u16())
StatusMessage(status) ==
    CASE status = 429 -> "Token request failed with status 429"
      [] status = 502 -> "Token request failed with status 502"
      [] status = 503 -> "Token request failed with status 503"
      [] status = 504 -> "Token request failed with status 504"
      [] OTHER -> "Token request failed with status other"

\* ------------------------------------------------------------ pure functions
is_retryable_error_timeout(e) == e = "timeout"
is_retryable_error(e) == e \in {"timeout", "connect", "request"}

is_retryable_status_no503(status) == status = 429 \/ status = 502 \/ status = 504
is_retryable_status_5xx(status) == status = 429 \/ status >= 500
is_retryable_status(status) ==
    status = 429 \/ status = 502 \/ status = 503 \/ status = 504

\* StatusCode::is_success
is_success_200(status) == status = 200
is_success(status) == status >= 200 /\ status <= 299

\* serde: TokenResponse { access_token, expires_in, token_type } all required.
ParseTokenResponseDefaults(body) ==
    IF body.json
    THEN Some([access_token |-> IF IsSome(body.access_token)
                                THEN Unwrap(body.access_token) ELSE "",
               expires_in |-> IF IsSome(body.expires_in)
                              THEN Unwrap(body.expires_in) ELSE 0])
    ELSE None
ParseTokenResponse(body) ==
    IF body.json /\ IsSome(body.access_token) /\ IsSome(body.expires_in)
       /\ IsSome(body.token_type)
    THEN Some([access_token |-> Unwrap(body.access_token),
               expires_in |-> Unwrap(body.expires_in)])
    ELSE None

\* serde: Auth0ApiError as client.rs uses it, message and error both optional.
ParseAuth0ApiError(body) ==
    IF body.json THEN Some([message |-> body.message, error |-> body.error])
    ELSE None

\* error.message.unwrap_or(error.error.unwrap_or_default())
ErrorMessage(error) ==
    IF IsSome(error.message) THEN Unwrap(error.message)
    ELSE IF IsSome(error.error) THEN Unwrap(error.error)
    ELSE ""

\* v.parse::<u64>().ok() on the header text
ParseU64(text) ==
    CASE text = "0" -> Some(0)
      [] text = "1" -> Some(1)
      [] text = "3" -> Some(3)
      [] OTHER -> None

\* headers().get("retry-after").and_then(to_str).and_then(parse::<u64>)
ParseRetryAfter(header) ==
    IF IsSome(header) THEN ParseU64(Unwrap(header)) ELSE None

\* min(max_delay, from_secs_f64(delay.as_secs_f64() * multiplier))
NextDelayUncapped(delay, cfg) == delay * cfg.multiplier
NextDelayFromInitial(delay, cfg) ==
    Min(cfg.max_delay,
        (IF delay < cfg.initial_delay THEN cfg.initial_delay ELSE delay)
            * cfg.multiplier)
NextDelay(delay, cfg) == Min(cfg.max_delay, delay * cfg.multiplier)

\* expires_in.saturating_sub(60)
SaturatingSub(a, b) == IF a >= b THEN a - b ELSE 0

ExpiresAtNoMargin(t, expires_in) == t + expires_in
ExpiresAt(t, expires_in) == t + SaturatingSub(expires_in, SafetyMargin)

\* if let Some(info) = token.as_ref() && info.expires_at > Instant::now()
TokenValidInclusive(slot, t) == IsSome(slot) /\ Unwrap(slot).expires_at >= t
TokenValidInverted(slot, t) == IsSome(slot) /\ Unwrap(slot).expires_at < t
TokenValid(slot, t) == IsSome(slot) /\ Unwrap(slot).expires_at > t

\* Lines 107-114: the second look at the slot, made under the permit.
RecheckSkipped(slot, t) == FALSE
RecheckAnyToken(slot, t) == IsSome(slot)
Recheck(slot, t) == TokenValid(slot, t)

\* ------------------------------------------------------------ state
VARIABLES
    clients,        \* the ManagementClient each build() returned, by client
    built,          \* number of build() calls that returned a client
    buildResult,    \* history: what the last build() call returned
    token,          \* the Arc<RwLock<Option<TokenInfo>>> allocations
    rwlock,         \* the RwLock of each token slot: readers and writer
    permits,        \* the Arc<Semaphore> allocations: free permits
    now,            \* Instant::now()
    pc,             \* each caller's position in get_token
    self,           \* &self of each caller's get_token: the handle's fields
    attempt,        \* get_token's loop variable
    delay,          \* get_token's local delay
    last_error,     \* get_token's local last_error
    wake,           \* deadline of the caller's tokio::time::sleep
    pending,        \* the TokenInfo built from token_response, before the write
    result,         \* what get_token returned to each caller
    posts,          \* history: POSTs received by each client's token endpoint
    sent,           \* history: POSTs sent by each caller's call
    onlyStatus,     \* history: every answer to the call was a retryable status
    gotToken,       \* history: the call was answered with a parsable 2xx
    emptyAtCall,    \* history: the slot was absent when the call started
    allParsedOk,    \* history: every response of the endpoint was a parsable 2xx
    expiredSeen,    \* history: some check found a stored token expired
    overridden,     \* history: a retry-after value replaced the call's delay
    last2xx,        \* history: the last answer to the call had a 2xx status
    lastOverride,   \* history: seconds and attempt of the call's last retry-after override
    heldAtReturn,   \* history: the call returned while another held the permit
    calls,          \* history: the number of get_token calls the task has made
    method,         \* the operation each task runs: get, post, patch or delete
    rpc,            \* each task's position in that operation
    reply,          \* what the operation returned to the task
    requests,       \* history: requests the task sent to the resource endpoint
    target          \* the identifier an API method was given and the URL path it built

vars == <<clients, built, buildResult, token, rwlock, permits, now, pc, self,
          attempt, delay,
          last_error, wake, pending, result, posts, sent, onlyStatus,
          gotToken, emptyAtCall, allParsedOk, expiredSeen, overridden, last2xx,
          lastOverride,
          heldAtReturn, calls, method, rpc, reply, requests, target>>

locals == <<attempt, delay, last_error, wake, pending>>
history ==
    <<posts, sent, onlyStatus, gotToken, emptyAtCall, allParsedOk, expiredSeen>>
answered == <<overridden, last2xx, lastOverride>>
observed == <<heldAtReturn, calls>>
request == <<method, rpc, reply, requests, target>>

NoHandle ==
    [live |-> FALSE, origin |-> 0, token |-> 0, token_refresh_semaphore |-> 0,
     retry_config |-> DefaultRetryConfig]

\* ManagementClientBuilder::build: a fresh token slot and a fresh semaphore.
BuildHandleShared(n, cfg) ==
    [live |-> TRUE, origin |-> n, token |-> 1, token_refresh_semaphore |-> 1,
     retry_config |-> cfg]
BuildHandle(n, cfg) ==
    [live |-> TRUE, origin |-> n, token |-> n, token_refresh_semaphore |-> n,
     retry_config |-> cfg]

\* #[derive(Clone)] on ManagementClient: the Arcs are shared, the rest copied.
CloneHandleDeep(h) ==
    [h EXCEPT !.token = (h.token % NumClients) + 1,
              !.token_refresh_semaphore = (h.token_refresh_semaphore % NumClients) + 1]
CloneHandle(h) == h

\* The handle each task calls get_token on: task 1 owns the built client,
\* every other task owns a clone of it (let client_clone = client.clone()).
HandleOf(c) == IF c = 1 THEN clients[1] ELSE CloneHandle(clients[1])

Slot(c) == self[c].token
Sem(c) == self[c].token_refresh_semaphore
Cfg(c) == self[c].retry_config
Origin(c) == self[c].origin

\* Positions at which the caller holds the _permit of line 101.
PermitHeldNever == {}
PermitHeld == {"read2", "check2", "await_resp", "sleep", "write", "store"}
\* Positions at which the caller's future is suspended in an .await.
Suspended == {"read1", "acquire", "read2", "await_resp", "sleep", "write"}

\* No task has called anything yet; no build() result has been looked at.
InitCallers ==
    /\ buildResult = None
    /\ rwlock = [s \in Clients |-> [readers |-> 0, writer |-> FALSE]]
    /\ permits = [k \in Clients |-> SemaphorePermits]
    /\ now = 0
    /\ pc = [c \in Callers |-> "idle"]
    /\ self = [c \in Callers |-> NoHandle]
    /\ attempt = [c \in Callers |-> 0]
    /\ delay = [c \in Callers |-> 0]
    /\ last_error = [c \in Callers |-> None]
    /\ wake = [c \in Callers |-> 0]
    /\ pending = [c \in Callers |-> None]
    /\ result = [c \in Callers |-> None]
    /\ posts = [k \in Clients |-> 0]
    /\ sent = [c \in Callers |-> 0]
    /\ onlyStatus = [c \in Callers |-> TRUE]
    /\ gotToken = [c \in Callers |-> FALSE]
    /\ emptyAtCall = [c \in Callers |-> FALSE]
    /\ allParsedOk = [k \in Clients |-> TRUE]
    /\ expiredSeen = [k \in Clients |-> FALSE]
    /\ overridden = [c \in Callers |-> FALSE]
    /\ last2xx = [c \in Callers |-> FALSE]
    /\ lastOverride = [c \in Callers |-> None]
    /\ heldAtReturn = [c \in Callers |-> FALSE]
    /\ calls = [c \in Callers |-> 0]
    /\ method = [c \in Callers |-> "none"]
    /\ rpc = [c \in Callers |-> "idle"]
    /\ reply = [c \in Callers |-> None]
    /\ requests = [c \in Callers |-> 0]

\* No API method has been called with an identifier.
NoTarget == [id |-> <<>>, path |-> None]

InitState(cfgs, slot) ==
    /\ \E cfg \in cfgs :
         clients = [n \in Clients |-> IF n = 1 THEN BuildHandle(1, cfg) ELSE NoHandle]
    /\ built = 1
    /\ token = [s \in Clients |-> IF s = 1 THEN slot ELSE None]
    /\ target = NoTarget
    /\ InitCallers


\* The state after build(): the slot of the client is empty.
InitWith(cfgs) == InitState(cfgs, None)

\* ------------------------------------------------------------ get_token
\* attempt < self.retry_config.max_retries
CanRetryNever(k, cfg) == FALSE
CanRetryAlways(k, cfg) == TRUE
CanRetry(k, cfg) == k < cfg.max_retries

\* Semaphore::acquire completes when a permit is free.
AcquirableAlways(k) == TRUE
Acquirable(k) == permits[k] > 0

\* if status == 429 && let Some(retry_after) = <retry-after header as u64>
\*     { delay = Duration::from_secs(retry_after) }
OverrideDelayIgnored(r, d) == d
OverrideDelayAnyStatus(r, d) ==
    IF IsSome(ParseRetryAfter(r.retry_after))
    THEN Unwrap(ParseRetryAfter(r.retry_after))
    ELSE d
OverrideDelay(r, d) ==
    IF r.status = 429 /\ IsSome(ParseRetryAfter(r.retry_after))
    THEN Unwrap(ParseRetryAfter(r.retry_after))
    ELSE d

\* last_error.unwrap_or_else(|| Authentication { "Token refresh failed after retries" })
LoopExitError(le) ==
    IF IsSome(le) THEN Unwrap(le)
    ELSE Authentication("Token refresh failed after retries", -1)

\* One step of caller c: its new position, result and locals, and the change
\* dperm of the free permits of its semaphore (-1 acquire, +1 drop of _permit).
Step(c, p, res, k, d, le, w, pend, dperm) ==
    /\ pc' = [pc EXCEPT ![c] = p]
    /\ result' = [result EXCEPT ![c] = res]
    /\ attempt' = [attempt EXCEPT ![c] = k]
    /\ delay' = [delay EXCEPT ![c] = d]
    /\ last_error' = [last_error EXCEPT ![c] = le]
    /\ wake' = [wake EXCEPT ![c] = w]
    /\ pending' = [pending EXCEPT ![c] = pend]
    /\ permits' = [permits EXCEPT ![Sem(c)] = @ + dperm]

\* return from get_token: the locals go out of scope; a held _permit is dropped.
Return(c, res) ==
    Step(c, "done", Some(res), 0, 0, None, 0, None,
         IF pc[c] \in PermitHeld THEN 1 ELSE 0)

\* continue: the for loop takes the next attempt index, or ends; a next
\* attempt starts with tokio::time::sleep(delay).
ContinueDropsPermit(c, err, d) ==
    IF attempt[c] + 1 <= Cfg(c).max_retries
    THEN Step(c, "sleep", None, attempt[c] + 1, d, Some(err), now + d, None, 1)
    ELSE Return(c, Err(LoopExitError(Some(err))))
Continue(c, err, d) ==
    IF attempt[c] + 1 <= Cfg(c).max_retries
    THEN Step(c, "sleep", None, attempt[c] + 1, d, Some(err), now + d, None, 0)
    ELSE Return(c, Err(LoopExitError(Some(err))))

\* self.http.post(token_url).json(&request).send()
SendRequest(c) ==
    /\ posts' = [posts EXCEPT ![Origin(c)] = @ + 1]
    /\ sent' = [sent EXCEPT ![c] = @ + 1]

\* A task calls get_token on the handle h it owns.
Call(c, h) ==
    /\ pc[c] = "idle"
    /\ h.live
    /\ self' = [self EXCEPT ![c] = h]
    /\ pc' = [pc EXCEPT ![c] = "read1"]
    /\ calls' = [calls EXCEPT ![c] = @ + 1]
    /\ emptyAtCall' = [emptyAtCall EXCEPT ![c] = (token[h.origin] = None)]
    /\ UNCHANGED <<request, heldAtReturn, answered, clients, built, buildResult,
                   token, rwlock, permits, now, locals, result, posts, sent,
                   onlyStatus, gotToken, allParsedOk, expiredSeen>>

\* A caller is queued in self.token.write().await on the slot s.
WriterWaiting(s) == \E d \in Callers : pc[d] = "write" /\ Slot(d) = s

\* tokio's RwLock admits a reader next to other readers, and makes it wait
\* while a writer holds the lock or is queued for it (write-preferring).
ReadGrantableAlone(s) ==
    /\ ~rwlock[s].writer /\ ~WriterWaiting(s)
    /\ rwlock[s].readers = 0
ReadGrantable(s) == ~rwlock[s].writer /\ ~WriterWaiting(s)

\* The closing brace of lines 99 and 114 (and a return inside the block)
\* drops the read guard.
KeepReadGuard(lock) == lock
DropReadGuard(lock) == [lock EXCEPT !.readers = @ - 1]

\* self.token.read().await (lines 93 and 108).
ReadLock(c) ==
    /\ pc[c] \in {"read1", "read2"}
    /\ ReadGrantable(Slot(c))
    /\ rwlock' = [rwlock EXCEPT ![Slot(c)].readers = @ + 1]
    /\ pc' = [pc EXCEPT ![c] = IF pc[c] = "read1" THEN "check1" ELSE "check2"]
    /\ UNCHANGED <<request, observed, answered, clients, built, buildResult,
                   token, permits, now, self, locals, result, history>>

\* Lines 92-99: the fast path under the read guard.
FastPath(c) ==
    /\ pc[c] = "check1"
    /\ rwlock' = [rwlock EXCEPT ![Slot(c)] = DropReadGuard(@)]
    /\ IF TokenValid(token[Slot(c)], now)
       THEN Return(c, Ok(Unwrap(token[Slot(c)]).access_token))
       ELSE Step(c, "acquire", None, 0, 0, None, 0, None, 0)
    /\ expiredSeen' = [expiredSeen EXCEPT ![Origin(c)] =
                          @ \/ (IsSome(token[Slot(c)]) /\ ~TokenValid(token[Slot(c)], now))]
    /\ heldAtReturn' = [heldAtReturn EXCEPT ![c] =
           TokenValid(token[Slot(c)], now) /\ permits[Sem(c)] = 0]
    /\ UNCHANGED <<request, calls, answered, clients, built, buildResult, token,
                   now, self, posts, sent, onlyStatus, gotToken, emptyAtCall,
                   allParsedOk>>

\* Lines 101-105: token_refresh_semaphore.acquire().await
Acquire(c) ==
    /\ pc[c] = "acquire"
    /\ Acquirable(Sem(c))
    /\ Step(c, "read2", None, 0, 0, None, 0, None, -1)
    /\ UNCHANGED <<request, observed, answered, clients, built, buildResult,
                   token, rwlock, now, self, history>>

\* Lines 107-144: the re-check under the permit, then attempt 0 of the loop.
DoubleCheck(c) ==
    /\ pc[c] = "check2"
    /\ rwlock' = [rwlock EXCEPT ![Slot(c)] = DropReadGuard(@)]
    /\ IF Recheck(token[Slot(c)], now)
       THEN /\ Return(c, Ok(Unwrap(token[Slot(c)]).access_token))
            /\ UNCHANGED <<posts, sent>>
       ELSE /\ Step(c, "await_resp", None, 0, Cfg(c).initial_delay, None, 0, None, 0)
            /\ SendRequest(c)
    /\ expiredSeen' = [expiredSeen EXCEPT ![Origin(c)] =
                          @ \/ (IsSome(token[Slot(c)]) /\ ~TokenValid(token[Slot(c)], now))]
    /\ UNCHANGED <<request, observed, answered, clients, built, buildResult,
                   token, now, self, onlyStatus, gotToken, emptyAtCall,
                   allParsedOk>>

\* Lines 122-144: the sleep of attempt k >= 1 is over; the delay is advanced
\* and the request of the attempt is sent.
SleepDone(c) ==
    /\ pc[c] = "sleep"
    /\ now >= wake[c]
    /\ Step(c, "await_resp", None, attempt[c], NextDelay(delay[c], Cfg(c)),
            last_error[c], 0, None, 0)
    /\ SendRequest(c)
    /\ UNCHANGED <<request, observed, answered, clients, built, buildResult,
                   token, rwlock, now, self, onlyStatus, gotToken, emptyAtCall,
                   allParsedOk, expiredSeen>>

\* Lines 146-193: the outcome r of send() arrives.
Respond(c, r) ==
    /\ pc[c] = "await_resp"
    /\ LET k == attempt[c] IN
       IF ~r.ok
       THEN IF is_retryable_error(r.err) /\ CanRetry(k, Cfg(c))
            THEN Continue(c, Http(r.err, k), delay[c])
            ELSE Return(c, Err(Http(r.err, k)))
       ELSE IF is_success(r.status)
       THEN LET token_response == ParseTokenResponse(r.body) IN
            IF IsSome(token_response)
            THEN Step(c, "write", None, k, delay[c], last_error[c], 0,
                      Some([access_token |-> Unwrap(token_response).access_token,
                            expires_at |->
                                ExpiresAt(now, Unwrap(token_response).expires_in)]),
                      0)
            ELSE Return(c, Err(Http("decode", k)))
       ELSE IF is_retryable_status(r.status) /\ CanRetry(k, Cfg(c))
       THEN Continue(c, Authentication(StatusMessage(r.status), k),
                     OverrideDelay(r, delay[c]))
       ELSE LET error == ParseAuth0ApiError(r.body) IN
            IF IsSome(error)
            THEN Return(c, Err(Authentication(ErrorMessage(Unwrap(error)), k)))
            ELSE Return(c, Err(Http("decode", k)))
    /\ LET parsed2xx == r.ok /\ r.status \in 200..299 /\ r.body \in TokenBodies IN
       /\ onlyStatus' = [onlyStatus EXCEPT ![c] =
              @ /\ r.ok /\ (r.status \in {429, 502, 503, 504} \/ parsed2xx)]
       /\ gotToken' = [gotToken EXCEPT ![c] = parsed2xx]
    /\ allParsedOk' = [allParsedOk EXCEPT ![Origin(c)] =
                          @ /\ r.ok /\ r.status \in 200..299 /\ r.body \in TokenBodies]
    /\ overridden' = [overridden EXCEPT ![c] =
           @ \/ (r.ok /\ r.status = 429
                    /\ r.retry_after \in {Some("0"), Some("1"), Some("3")})]
    /\ last2xx' = [last2xx EXCEPT ![c] = r.ok /\ r.status \in 200..299]
    /\ lastOverride' = [lastOverride EXCEPT ![c] =
           IF r.ok /\ r.status = 429 /\ r.retry_after \in {Some("0"), Some("1"), Some("3")}
              /\ pc'[c] = "sleep"
           THEN Some([seconds |-> delay'[c], at |-> attempt[c]])
           ELSE @]
    /\ UNCHANGED <<request, observed, clients, built, buildResult, token,
                   rwlock, now, self, posts, sent, emptyAtCall, expiredSeen>>

\* Line 164: self.token.write().await, granted while nobody holds the lock.
WriteLock(c) ==
    /\ pc[c] = "write"
    /\ rwlock[Slot(c)].readers = 0 /\ ~rwlock[Slot(c)].writer
    /\ rwlock' = [rwlock EXCEPT ![Slot(c)].writer = TRUE]
    /\ pc' = [pc EXCEPT ![c] = "store"]
    /\ UNCHANGED <<request, observed, answered, clients, built, buildResult,
                   token, permits, now, self, locals, result, history>>

\* Lines 165-170: the slot is replaced and the access token returned.
StoreAccessTokenOnly(c) ==
    /\ pc[c] = "store"
    /\ token' = [token EXCEPT ![Slot(c)] =
                    IF IsSome(@)
                    THEN Some([access_token |-> Unwrap(pending[c]).access_token,
                               expires_at |-> Unwrap(@).expires_at])
                    ELSE pending[c]]
    /\ rwlock' = [rwlock EXCEPT ![Slot(c)].writer = FALSE]
    /\ Return(c, Ok(Unwrap(pending[c]).access_token))
    /\ UNCHANGED <<request, observed, answered, clients, built, buildResult,
                   now, self, history>>
Store(c) ==
    /\ pc[c] = "store"
    /\ token' = [token EXCEPT ![Slot(c)] = pending[c]]
    /\ rwlock' = [rwlock EXCEPT ![Slot(c)].writer = FALSE]
    /\ Return(c, Ok(Unwrap(pending[c]).access_token))
    /\ UNCHANGED <<request, observed, answered, clients, built, buildResult,
                   now, self, history>>

\* The caller's future is dropped at one of its .await points.
CancelKeepsPermit(c) ==
    /\ pc[c] \in Suspended
    /\ Step(c, "done", Some(Cancelled), 0, 0, None, 0, None, 0)
    /\ UNCHANGED <<request, observed, answered, clients, built, buildResult,
                   token, rwlock, now, self, history>>
Cancel(c) ==
    /\ pc[c] \in Suspended
    /\ Return(c, Cancelled)
    /\ UNCHANGED <<request, observed, answered, clients, built, buildResult,
                   token, rwlock, now, self, history>>

\* ------------------------------------------------------------ resource requests
\* get, post, patch and delete of ManagementClient (lines 209-259).
Methods == {"get", "post", "patch", "delete"}

\* A body of a resource response: whether it is a JSON object, whether it
\* decodes to the operation's result type T, and the fields of Auth0ApiError
\* it carries.
ResBody(json, decodes, msg, err, code) ==
    [json |-> json, decodes |-> decodes, message |-> msg, error |-> err,
     error_code |-> code]

ResGarbage == ResBody(FALSE, FALSE, None, None, None)
ResValue == ResBody(TRUE, TRUE, None, None, None)
ResErrorBodies ==
    {ResBody(TRUE, FALSE, m, e, k) :
        m \in {None, Some("Invalid token")}, e \in {None, Some("Unauthorized")},
        k \in {None, Some("invalid_token")}}
RateLimitBody ==
    ResBody(TRUE, FALSE, Some("Rate limit exceeded"), Some("Too Many Requests"), None)

ResErr(e) ==
    [ok |-> FALSE, err |-> e, status |-> 0, retry_after |-> None, body |-> ResGarbage]
ResResp(s, h, b) ==
    [ok |-> TRUE, err |-> "", status |-> s, retry_after |-> h, body |-> b]

\* What the one request of an operation can come back with.
ResourceResults ==
    {ResErr(e) : e \in {"timeout", "connect"}}
    \cup {ResResp(st, None, b) : st \in {200, 204}, b \in {ResValue, ResGarbage}}
    \cup {ResResp(429, h, b) : h \in RetryAfterHeaders, b \in {ResGarbage, RateLimitBody}}
    \cup {ResResp(st, None, b) : st \in {401, 404, 500}, b \in ResErrorBodies \cup {ResGarbage}}

\* Result<T> of an operation: Ok, or one Auth0Error with the fields of its
\* variant (the others blank); at is kept from get_token's errors.
OpError(kind, message, at, status, error_code, retry_after) ==
    [tag |-> "Err", kind |-> kind, message |-> message, at |-> at,
     status |-> status, error_code |-> error_code, retry_after |-> retry_after]
OpOk ==
    [tag |-> "Ok", kind |-> "", message |-> "", at |-> -1, status |-> 0,
     error_code |-> None, retry_after |-> None]
OpCancelled ==
    [tag |-> "Cancelled", kind |-> "", message |-> "", at |-> -1, status |-> 0,
     error_code |-> None, retry_after |-> None]
Api(status, message, error_code) ==
    OpError("Api", message, -1, status, error_code, None)
RateLimited(retry_after) ==
    OpError("RateLimited", "", -1, 0, None, retry_after)

\* self.get_token().await? : an Err of get_token is the operation's Err.
PropagateRateLimited(res) ==
    IF res.tag = "Err"
    THEN IF res.kind = "Authentication"
         THEN OpError("RateLimited", "", -1, 0, None, None)
         ELSE OpError(res.kind, res.message, res.at, 0, None, None)
    ELSE OpCancelled
Propagate(res) ==
    IF res.tag = "Err"
    THEN OpError(res.kind, res.message, res.at, 0, None, None)
    ELSE OpCancelled

\* The ? after get_token(): the operation returns early unless it got a token.
ReturnsEarlyNever(res) == FALSE
ReturnsEarly(res) == res.tag # "Ok"

\* response.json::<Auth0ApiError>() as client.rs uses the type: error, message
\* and error_code all optional.
ParseResourceError(body) ==
    IF body.json
    THEN Some([error |-> body.error, message |-> body.message,
               error_code |-> body.error_code])
    ELSE None

\* unwrap_or(Auth0ApiError { error: Some("Unknown error"), message: None, .. })
UnknownError ==
    [error |-> Some("Unknown error"), message |-> None, error_code |-> None]

\* Lines 269-292.
handle_error_no_header(r) ==
    IF r.status = 429
    THEN RateLimited(None)
    ELSE LET parsed == ParseResourceError(r.body)
             error == IF IsSome(parsed) THEN Unwrap(parsed) ELSE UnknownError
         IN  Api(r.status, ErrorMessage(error), error.error_code)
handle_error_no_fallback(r) ==
    IF r.status = 429 THEN RateLimited(ParseRetryAfter(r.retry_after))
    ELSE Api(r.status, ErrorMessage(r.body), r.body.error_code)
handle_error(r) ==
    IF r.status = 429
    THEN RateLimited(ParseRetryAfter(r.retry_after))
    ELSE LET parsed == ParseResourceError(r.body)
             error == IF IsSome(parsed) THEN Unwrap(parsed) ELSE UnknownError
         IN  Api(r.status, ErrorMessage(error), error.error_code)

\* Lines 261-267.
handle_response(r) ==
    IF is_success(r.status)
    THEN IF r.body.decodes THEN OpOk ELSE OpError("Http", "decode", -1, 0, None, None)
    ELSE handle_error(r)

\* What get, post, patch (lines 211-213, 222-230, 239-247) and delete
\* (lines 252-258) return for the outcome r of send().
OpResult(m, r) ==
    IF ~r.ok THEN OpError("Http", r.err, -1, 0, None, None)
    ELSE IF m = "delete"
    THEN IF is_success(r.status) THEN OpOk ELSE handle_error(r)
    ELSE handle_response(r)

\* A task starts the operation m on its handle; get_token is called first.
StartOp(c, m) ==
    /\ rpc[c] = "idle" /\ pc[c] = "idle"
    /\ method' = [method EXCEPT ![c] = m]
    /\ rpc' = [rpc EXCEPT ![c] = "token"]
    /\ UNCHANGED <<reply, requests, target, observed, answered, clients, built,
                   buildResult, token, rwlock, permits, now, pc, self, locals,
                   result, history>>

\* get_token has returned: on Err the operation returns it; on Ok the one
\* request of the operation is sent with the token as bearer.
TokenReturned(c) ==
    /\ rpc[c] = "token" /\ pc[c] = "done"
    /\ IF ReturnsEarly(Unwrap(result[c]))
       THEN /\ rpc' = [rpc EXCEPT ![c] = "returned"]
            /\ reply' = [reply EXCEPT ![c] = Some(Propagate(Unwrap(result[c])))]
            /\ UNCHANGED requests
       ELSE /\ rpc' = [rpc EXCEPT ![c] = "await_res"]
            /\ requests' = [requests EXCEPT ![c] = @ + 1]
            /\ UNCHANGED reply
    /\ UNCHANGED <<method, target, observed, answered, clients, built, buildResult,
                   token, rwlock, permits, now, pc, self, locals, result,
                   history>>

\* Lines 213, 230, 247, 254-258: whatever send() came back with, the
\* operation returns; there is no loop around the request.
AfterResponseRetry429(r) == IF r.ok /\ r.status = 429 THEN "token" ELSE "returned"
AfterResponse(r) == "returned"

\* The outcome r of the operation's send() arrives and the operation returns.
ResourceRespondInvalidating(c, r) ==
    /\ rpc[c] = "await_res"
    /\ rpc' = [rpc EXCEPT ![c] = AfterResponse(r)]
    /\ reply' = [reply EXCEPT ![c] = Some(OpResult(method[c], r))]
    /\ token' = IF r.ok /\ r.status = 401
                THEN [token EXCEPT ![Slot(c)] = None] ELSE token
    /\ UNCHANGED <<method, requests, target, observed, answered, clients, built,
                   buildResult, rwlock, permits, now, pc, self, locals,
                   result, history>>
ResourceRespond(c, r) ==
    /\ rpc[c] = "await_res"
    /\ rpc' = [rpc EXCEPT ![c] = AfterResponse(r)]
    /\ reply' = [reply EXCEPT ![c] = Some(OpResult(method[c], r))]
    /\ UNCHANGED <<method, requests, target, observed, answered, clients, built,
                   buildResult, token, rwlock, permits, now, pc, self, locals,
                   result, history>>

\* ------------------------------------------------------------ request paths
\* Identifiers (ClientId::new, UserId::new, &str of logs().get take any
\* string) as sequences of characters; the characters cover a letter, the
\* separators and the characters the encoding itself writes.
IdChars == {"a", ".", "/", "%", "2", "F"}
Ids == UNION {[1..n -> IdChars] : n \in 0..MaxIdLen}

\* urlencoding::encode keeps ASCII letters, digits and - _ . ~ and writes
\* every other byte as % and two upper-case hex digits.
Unreserved == {"a", "2", "5", "F", ".", "-", "_", "~"}
PercentByte(ch) ==
    CASE ch = "/" -> <<"%", "2", "F">>
      [] ch = "%" -> <<"%", "2", "5">>

RECURSIVE encode(_)
encode(s) ==
    IF s = <<>> THEN <<>>
    ELSE (IF Head(s) \in Unreserved THEN <<Head(s)>> ELSE PercentByte(Head(s)))
         \o encode(Tail(s))

\* urlencoding::decode: % and two hex digits give the byte, anything else is
\* kept; "?" stands for a byte outside IdChars.
HexDigits == {"a", "2", "5", "F"}
HexByte(h, l) ==
    CASE h = "2" /\ l = "F" -> "/"
      [] h = "2" /\ l = "5" -> "%"
      [] OTHER -> "?"

RECURSIVE decode(_)
decode(s) ==
    IF s = <<>> THEN <<>>
    ELSE IF Head(s) = "%" /\ Len(s) >= 3 /\ s[2] \in HexDigits /\ s[3] \in HexDigits
    THEN <<HexByte(s[2], s[3])>> \o decode(SubSeq(s, 4, Len(s)))
    ELSE <<Head(s)>> \o decode(Tail(s))

\* format!("api/v2/clients/{}", ..) and format!("api/v2/logs/{}", ..)
ClientsPrefix ==
    <<"a", "p", "i", "/", "v", "2", "/", "c", "l", "i", "e", "n", "t", "s", "/">>
LogsPrefix == <<"a", "p", "i", "/", "v", "2", "/", "l", "o", "g", "s", "/">>

\* The segments of a relative reference: the text between the "/".
RECURSIVE Split(_)
Split(s) ==
    IF s = <<>> THEN << <<>> >>
    ELSE LET r == Split(Tail(s))
         IN  IF Head(s) = "/" THEN << <<>> >> \o r
             ELSE << <<Head(s)>> \o r[1] >> \o Tail(r)

\* Url::join on the base "https://host/": the URL parser's path state takes
\* the segments in order; ".." removes the segment before it, "." is dropped,
\* and either of them as the last segment leaves an empty last segment.
RECURSIVE PathState(_, _)
PathState(segs, acc) ==
    IF segs = <<>> THEN acc
    ELSE LET seg == Head(segs)
             last == IF Len(segs) = 1 THEN << <<>> >> ELSE <<>>
         IN  IF seg = <<".", ".">>
             THEN PathState(Tail(segs),
                            (IF acc = <<>> THEN acc
                             ELSE SubSeq(acc, 1, Len(acc) - 1)) \o last)
             ELSE IF seg = <<".">>
             THEN PathState(Tail(segs), acc \o last)
             ELSE PathState(Tail(segs), Append(acc, seg))

join(relative) == PathState(Split(relative), <<>>)

\* clients().get(id) and its siblings build the URL of the request.
ClientsGet ==
    /\ ~IsSome(target.path)
    /\ target' = [target EXCEPT
                     !.path = Some(join(ClientsPrefix \o encode(target.id)))]
    /\ UNCHANGED <<method, rpc, reply, requests, observed, answered, clients,
                   built, buildResult, token, rwlock, permits, now, pc, self,
                   locals, result, history>>

\* logs().get(id)
LogsGet ==
    /\ ~IsSome(target.path)
    /\ target' = [target EXCEPT
                     !.path = Some(join(LogsPrefix \o encode(target.id)))]
    /\ UNCHANGED <<method, rpc, reply, requests, observed, answered, clients,
                   built, buildResult, token, rwlock, permits, now, pc, self,
                   locals, result, history>>

InitPath ==
    /\ \E cfg \in SharedConfigs :
         clients = [n \in Clients |-> IF n = 1 THEN BuildHandle(1, cfg) ELSE NoHandle]
    /\ built = 1
    /\ token = [s \in Clients |-> None]
    /\ \E id \in Ids : target = [id |-> id, path |-> None]
    /\ InitCallers

NextPath == ClientsGet \/ LogsGet

SpecPath == InitPath /\ [][NextPath]_vars

\* ------------------------------------------------------------ environment
Tick ==
    /\ now < MaxTime
    /\ now' = now + 1
    /\ UNCHANGED <<request, observed, answered, clients, built, buildResult,
                   token, rwlock, permits, pc, self, locals, result, history>>

\* The clock of the runs with one caller, which follow the sleeps further.
TickRetry ==
    /\ now < MaxRetryTime
    /\ now' = now + 1
    /\ UNCHANGED <<request, observed, answered, clients, built, buildResult,
                   token, rwlock, permits, pc, self, locals, result, history>>

\* The token endpoint's answers in the runs with several callers.
SharedResults ==
    {HttpErr("timeout"), HttpResp(503, None, Garbage),
     HttpResp(401, None, Body(TRUE, None, None, None, None, Some("access_denied")))}
    \cup {HttpResp(200, None, Body(TRUE, Some(t), Some(e), Some("Bearer"), None, None)) :
            t \in AccessTokens, e \in {60, 61}}

Init == InitWith(SharedConfigs)

Next ==
    \/ \E c \in Callers : Call(c, HandleOf(c))
    \/ \E c \in Callers : ReadLock(c)
    \/ \E c \in Callers : FastPath(c)
    \/ \E c \in Callers : Acquire(c)
    \/ \E c \in Callers : DoubleCheck(c)
    \/ \E c \in Callers : SleepDone(c)
    \/ \E c \in Callers, r \in SharedResults : Respond(c, r)
    \/ \E c \in Callers : WriteLock(c)
    \/ \E c \in Callers : Store(c)
    \/ \E c \in Callers : Cancel(c)
    \/ Tick

Spec == Init /\ [][Next]_vars

\* One caller on one handle, every answer of the token endpoint.
InitRetry == InitWith(RetryConfigs)

NextRetry ==
    \/ Call(1, HandleOf(1))
    \/ ReadLock(1)
    \/ FastPath(1)
    \/ Acquire(1)
    \/ DoubleCheck(1)
    \/ SleepDone(1)
    \/ \E r \in HttpResults : Respond(1, r)
    \/ WriteLock(1)
    \/ Store(1)
    \/ Cancel(1)
    \/ TickRetry

SpecRetry == InitRetry /\ [][NextRetry]_vars

\* ------------------------------------------------------------ build
\* ManagementClientBuilder with the fields set so far (lines 316-348). The
\* domains: a bare host, a full URL (server.uri() of the tests) and a text
\* that gives no URL.
Domains == {"tenant.auth0.com", "http://127.0.0.1:4010", ""}

BuilderConfig ==
    [max_retries |-> 1, initial_delay |-> 0, max_delay |-> 2, multiplier |-> 2]

Builders ==
    [domain : {None} \cup {Some(d) : d \in Domains},
     client_id : {None, Some("id")},
     client_secret : {None, Some("secret")},
     audience : {None, Some("aud")},
     retry_config : {None, Some(BuilderConfig)}]

\* Lines 363-367: Url::parse of the domain, with https:// put in front of a
\* bare host; an empty host is a parse error.
ParseBaseUrl(domain) ==
    CASE domain = "tenant.auth0.com" -> Some("https://tenant.auth0.com/")
      [] domain = "http://127.0.0.1:4010" -> Some("http://127.0.0.1:4010/")
      [] OTHER -> None

BuildErr(kind, message) ==
    [ok |-> FALSE, kind |-> kind, message |-> message, client |-> NoHandle]
BuildOk(h) == [ok |-> TRUE, kind |-> "", message |-> "", client |-> h]

\* Lines 350-393; n names the allocations of this call.
build_unchecked(b, n) ==
    BuildOk(BuildHandle(n, IF IsSome(b.retry_config) THEN Unwrap(b.retry_config)
                           ELSE DefaultRetryConfig))
build(b, n) ==
    IF ~IsSome(b.domain) THEN BuildErr("Configuration", "domain is required")
    ELSE IF ~IsSome(b.client_id)
    THEN BuildErr("Configuration", "client_id is required")
    ELSE IF ~IsSome(b.client_secret)
    THEN BuildErr("Configuration", "client_secret is required")
    ELSE IF ~IsSome(ParseBaseUrl(Unwrap(b.domain)))
    THEN BuildErr("Url", "empty host")
    ELSE BuildOk(BuildHandle(n, IF IsSome(b.retry_config)
                                THEN Unwrap(b.retry_config)
                                ELSE DefaultRetryConfig))

\* A task calls build() on the builder b; an Ok gives it a client of its own.
Build(b) ==
    /\ built < NumClients
    /\ LET n == built + 1
           r == build(b, n)
       IN  /\ buildResult' = Some([ok |-> r.ok, kind |-> r.kind, message |-> r.message])
           /\ IF r.ok
              THEN /\ clients' = [clients EXCEPT ![n] = r.client]
                   /\ built' = n
                   /\ token' = [token EXCEPT ![r.client.token] = None]
                   /\ permits' = [permits EXCEPT ![r.client.token_refresh_semaphore] =
                                      SemaphorePermits]
              ELSE UNCHANGED <<clients, built, token, permits>>
    /\ UNCHANGED <<request, observed, answered, rwlock, now, pc, self, locals,
                   result, history>>

\* Task c uses the client of the c-th successful build.
OwnClient(c) == clients[IF c \in Clients THEN c ELSE 1]

BuildResults ==
    {HttpResp(401, None, Body(TRUE, None, None, None, None, Some("access_denied"))),
     HttpResp(200, None, Body(TRUE, Some("t1"), Some(61), Some("Bearer"), None, None))}

InitBuild ==
    /\ clients = [n \in Clients |-> NoHandle]
    /\ built = 0
    /\ token = [s \in Clients |-> None]
    /\ target = NoTarget
    /\ InitCallers

NextBuild ==
    \/ \E b \in Builders : Build(b)
    \/ \E c \in Callers : Call(c, OwnClient(c))
    \/ \E c \in Callers : ReadLock(c)
    \/ \E c \in Callers : FastPath(c)
    \/ \E c \in Callers : Acquire(c)
    \/ \E c \in Callers : DoubleCheck(c)
    \/ \E c \in Callers, r \in BuildResults : Respond(c, r)
    \/ \E c \in Callers : WriteLock(c)
    \/ \E c \in Callers : Store(c)

SpecBuild == InitBuild /\ [][NextBuild]_vars

\* ------------------------------------------------------------ cached runs
\* Tasks calling repeatedly on one client whose slot holds a token from an
\* earlier refresh that has just expired; the runs stay within one second.
CachedResults ==
    {HttpResp(503, None, Garbage),
     HttpResp(200, None, Body(TRUE, Some("t2"), Some(61), Some("Bearer"), None, None))}

\* The task is through with a call and gets ready for its next one (the
\* loop of test_token_reuse_across_requests); the history of the call ends.
Again(c) ==
    /\ pc[c] = "done"
    /\ calls[c] < MaxCalls
    /\ pc' = [pc EXCEPT ![c] = "idle"]
    /\ result' = [result EXCEPT ![c] = None]
    /\ sent' = [sent EXCEPT ![c] = 0]
    /\ onlyStatus' = [onlyStatus EXCEPT ![c] = TRUE]
    /\ gotToken' = [gotToken EXCEPT ![c] = FALSE]
    /\ overridden' = [overridden EXCEPT ![c] = FALSE]
    /\ last2xx' = [last2xx EXCEPT ![c] = FALSE]
    /\ lastOverride' = [lastOverride EXCEPT ![c] = None]
    /\ heldAtReturn' = [heldAtReturn EXCEPT ![c] = FALSE]
    /\ UNCHANGED <<request, calls, clients, built, buildResult, token, rwlock,
                   permits, now, self, locals, posts, emptyAtCall, allParsedOk,
                   expiredSeen>>

InitCached ==
    InitState(SharedConfigs, Some([access_token |-> "t1", expires_at |-> 0]))

NextCached ==
    \/ \E c \in Callers : Call(c, HandleOf(c))
    \/ \E c \in Callers : ReadLock(c)
    \/ \E c \in Callers : FastPath(c)
    \/ \E c \in Callers : Acquire(c)
    \/ \E c \in Callers : DoubleCheck(c)
    \/ \E c \in Callers : SleepDone(c)
    \/ \E c \in Callers, r \in CachedResults : Respond(c, r)
    \/ \E c \in Callers : WriteLock(c)
    \/ \E c \in Callers : Store(c)
    \/ \E c \in Callers : Again(c)

SpecCached == InitCached /\ [][NextCached]_vars

\* ------------------------------------------------------------ short-lived tokens
\* Runs in which the token endpoint only grants tokens of expires_in <= 60.
ShortResults ==
    {HttpResp(503, None, Garbage),
     HttpResp(200, None, Body(TRUE, Some("t1"), Some(60), Some("Bearer"), None, None)),
     HttpResp(200, None, Body(TRUE, Some("t2"), Some(0), Some("Bearer"), None, None))}

InitShort == InitWith(SharedConfigs)

NextShort ==
    \/ \E c \in Callers : Call(c, HandleOf(c))
    \/ \E c \in Callers : ReadLock(c)
    \/ \E c \in Callers : FastPath(c)
    \/ \E c \in Callers : Acquire(c)
    \/ \E c \in Callers : DoubleCheck(c)
    \/ \E c \in Callers : SleepDone(c)
    \/ \E c \in Callers, r \in ShortResults : Respond(c, r)
    \/ \E c \in Callers : WriteLock(c)
    \/ \E c \in Callers : Store(c)
    \/ Tick

SpecShort == InitShort /\ [][NextShort]_vars

\* ------------------------------------------------------------ fair runs
\* Concurrent callers whose futures are polled to completion: no call is
\* cancelled, every exchange is answered, time passes while a caller sleeps,
\* and locks and permits are handed out in FIFO order.
LiveConfigs ==
    [max_retries : {0, 1}, initial_delay : {0, 1}, max_delay : {2}, multiplier : {2}]

LiveResults ==
    {HttpResp(503, None, Garbage),
     HttpResp(401, None, Body(TRUE, None, None, None, None, Some("access_denied"))),
     HttpResp(200, None, Body(TRUE, Some("t1"), Some(61), Some("Bearer"), None, None))}

\* tokio::time::sleep: the clock advances while some caller's deadline is ahead.
TickLive ==
    /\ \E c \in Callers : pc[c] = "sleep" /\ wake[c] > now
    /\ now' = now + 1
    /\ UNCHANGED <<request, observed, answered, clients, built, buildResult,
                   token, rwlock, permits, pc, self, locals, result, history>>

InitLive == InitWith(LiveConfigs)

NextLive ==
    \/ \E c \in Callers : Call(c, HandleOf(c))
    \/ \E c \in Callers : ReadLock(c)
    \/ \E c \in Callers : FastPath(c)
    \/ \E c \in Callers : Acquire(c)
    \/ \E c \in Callers : DoubleCheck(c)
    \/ \E c \in Callers : SleepDone(c)
    \/ \E c \in Callers, r \in LiveResults : Respond(c, r)
    \/ \E c \in Callers : WriteLock(c)
    \/ \E c \in Callers : Store(c)
    \/ TickLive

\* The runtime polls a ready task (WF); the semaphore and the RwLock of tokio
\* serve their waiters in FIFO order (SF); every request is answered (WF).
LiveFairness ==
    /\ WF_vars(TickLive)
    /\ \A c \in Callers :
        /\ WF_vars(FastPath(c))
        /\ WF_vars(DoubleCheck(c))
        /\ WF_vars(SleepDone(c))
        /\ WF_vars(Store(c))
        /\ WF_vars(\E r \in LiveResults : Respond(c, r))
        /\ SF_vars(ReadLock(c))
        /\ SF_vars(Acquire(c))
        /\ SF_vars(WriteLock(c))

SpecLive == InitLive /\ [][NextLive]_vars /\ LiveFairness

\* ------------------------------------------------------------ expiry runs
\* Tasks sharing one client while stored tokens reach their expiry instants.
\* The endpoint issues short-lived tokens and tokens of one hour.
ExpiryResults ==
    {HttpResp(503, None, Garbage)}
    \cup {HttpResp(200, None, Body(TRUE, Some("t1"), Some(e), Some("Bearer"), None, None)) :
            e \in {59, 61, 3600}}

\* The instants the clock may advance to: the next second while the run is
\* young, and the last valid second and the expiry instant of a stored token.
ExpiryInstants ==
    LET stored == {k \in Clients : IsSome(token[k])}
        edges == UNION {{Unwrap(token[k]).expires_at - 1, Unwrap(token[k]).expires_at} :
                            k \in stored}
    IN  {t \in edges \cup {now + 1} :
            /\ t > now
            /\ IF t = now + 1 THEN now < MaxTime \/ t \in edges ELSE now <= MaxTime}

\* Instant::now() is monotonic: time passes until the instant t.
Elapse(t) ==
    /\ t > now
    /\ now' = t
    /\ UNCHANGED <<request, observed, answered, clients, built, buildResult,
                   token, rwlock, permits, pc, self, locals, result, history>>

InitExpiry == InitWith(SharedConfigs)

NextExpiry ==
    \/ \E c \in Callers :
        \/ Call(c, HandleOf(c))
        \/ ReadLock(c)
        \/ FastPath(c)
        \/ Acquire(c)
        \/ DoubleCheck(c)
        \/ SleepDone(c)
        \/ \E r \in ExpiryResults : Respond(c, r)
        \/ WriteLock(c)
        \/ Store(c)
        \/ Cancel(c)
    \/ \E t \in ExpiryInstants : Elapse(t)

SpecExpiry == InitExpiry /\ [][NextExpiry]_vars

\* ------------------------------------------------------------ operation runs
\* One task running one operation on the client.
OpTokenResults ==
    {HttpErr("timeout"),
     HttpResp(429, Some("1"), EmptyObject),
     HttpResp(401, None, Body(TRUE, None, None, None, None, Some("access_denied"))),
     HttpResp(200, None, Body(TRUE, Some("t1"), Some(61), Some("Bearer"), None, None))}

InitRequest == InitWith(SharedConfigs)

NextRequest ==
    \/ \E m \in Methods : StartOp(1, m)
    \/ rpc[1] = "token" /\ Call(1, HandleOf(1))
    \/ ReadLock(1)
    \/ FastPath(1)
    \/ Acquire(1)
    \/ DoubleCheck(1)
    \/ SleepDone(1)
    \/ \E r \in OpTokenResults : Respond(1, r)
    \/ WriteLock(1)
    \/ Store(1)
    \/ Cancel(1)
    \/ TokenReturned(1)
    \/ \E r \in ResourceResults : ResourceRespond(1, r)
    \/ Tick

SpecRequest == InitRequest /\ [][NextRequest]_vars

\* ------------------------------------------------------------ repeated operations
\* One task calls operations one after the other on the same client (the loop
\* of test_token_reuse_across_requests); the outcome of an operation stays
\* visible until the next one has its own.
ReuseTokenResults ==
    {HttpResp(503, None, Garbage),
     HttpResp(401, None, Body(TRUE, None, None, None, None, Some("access_denied"))),
     HttpResp(200, None, Body(TRUE, Some("t1"), Some(61), Some("Bearer"), None, None))}

ReuseResourceResults ==
    {ResErr("timeout"),
     ResResp(200, None, ResValue),
     ResResp(429, Some("1"), RateLimitBody),
     ResResp(401, None, ResBody(TRUE, FALSE, Some("Invalid token"),
                                Some("Unauthorized"), Some("invalid_token"))),
     ResResp(500, None, ResGarbage)}

NextOp(c) ==
    /\ rpc[c] = "returned"
    /\ calls[c] < MaxCalls
    /\ rpc' = [rpc EXCEPT ![c] = "idle"]
    /\ method' = [method EXCEPT ![c] = "none"]
    /\ requests' = [requests EXCEPT ![c] = 0]
    /\ pc' = [pc EXCEPT ![c] = "idle"]
    /\ result' = [result EXCEPT ![c] = None]
    /\ sent' = [sent EXCEPT ![c] = 0]
    /\ onlyStatus' = [onlyStatus EXCEPT ![c] = TRUE]
    /\ gotToken' = [gotToken EXCEPT ![c] = FALSE]
    /\ overridden' = [overridden EXCEPT ![c] = FALSE]
    /\ last2xx' = [last2xx EXCEPT ![c] = FALSE]
    /\ lastOverride' = [lastOverride EXCEPT ![c] = None]
    /\ heldAtReturn' = [heldAtReturn EXCEPT ![c] = FALSE]
    /\ UNCHANGED <<reply, target, calls, clients, built, buildResult, token,
                   rwlock, permits, now, self, locals, posts, emptyAtCall,
                   allParsedOk, expiredSeen>>

InitReuse == InitWith(SharedConfigs)

NextReuse ==
    \/ \E m \in Methods : StartOp(1, m)
    \/ rpc[1] = "token" /\ Call(1, HandleOf(1))
    \/ ReadLock(1)
    \/ FastPath(1)
    \/ Acquire(1)
    \/ DoubleCheck(1)
    \/ SleepDone(1)
    \/ \E r \in ReuseTokenResults : Respond(1, r)
    \/ WriteLock(1)
    \/ Store(1)
    \/ TokenReturned(1)
    \/ \E r \in ReuseResourceResults : ResourceRespond(1, r)
    \/ NextOp(1)
    \/ Tick

SpecReuse == InitReuse /\ [][NextReuse]_vars

\* ------------------------------------------------------------ claims
AllDone == \A c \in Callers : pc[c] = "done"
NoneCancelled == \A c \in Callers : result[c] # Some(Cancelled)
AllStartedEmpty == \A c \in Callers : emptyAtCall[c]
IsOk(c) == IsSome(result[c]) /\ Unwrap(result[c]).tag = "Ok"
IsErr(c) == IsSome(result[c]) /\ Unwrap(result[c]).tag = "Err"

\* C1 as stated: when all callers called get_token on an empty cache and every
\* answer of the token endpoint was a parsable 2xx, exactly one POST was made
\* and all callers got the same access token.
C1_Orig ==
    (AllDone /\ AllStartedEmpty /\ NoneCancelled /\ allParsedOk[1])
        => /\ posts[1] = 1
           /\ \A c, d \in Callers : IsOk(c) /\ result[c] = result[d]

\* C1 amended: the same, provided no caller found the stored token already
\* expired when it checked the cache (expires_in > 60 and the checks made
\* inside the validity window).
C1_SingleFlight ==
    (AllDone /\ AllStartedEmpty /\ NoneCancelled /\ allParsedOk[1]
     /\ ~expiredSeen[1])
        => /\ posts[1] = 1
           /\ \A c, d \in Callers : IsOk(c) /\ result[c] = result[d]

C1_Witness ==
    /\ AllDone /\ AllStartedEmpty /\ NoneCancelled /\ allParsedOk[1]
    /\ ~expiredSeen[1]
    /\ posts[1] = 1
    /\ \A c \in Callers : IsOk(c)

\* C2: at most one caller of a client, over all its clones, is between
\* acquiring the refresh permit and leaving get_token, so at most one token
\* request of the client is in flight.
C2_Serialized ==
    \A k \in Clients :
        Cardinality({c \in Callers :
            /\ self[c].origin = k
            /\ pc[c] \in {"read2", "check2", "await_resp", "sleep", "write", "store"}})
          <= 1

C2_Witness ==
    \E c, d \in Callers : c # d /\ pc[c] = "await_resp" /\ pc[d] = "acquire"

\* C3: a get_token call whose fast-path check sees a stored token with
\* now < expires_at returns that access token and sends no token request; and
\* while no check has found the stored token expired, one token request in
\* total has been made.
C3_Reuse ==
    /\ [][\A c \in Callers :
            (/\ pc[c] = "check1" /\ pc'[c] # "check1"
             /\ token[1] # None /\ Unwrap(token[1]).expires_at > now)
                => /\ result'[c] = Some(Ok(Unwrap(token[1]).access_token))
                   /\ posts' = posts /\ sent' = sent]_vars
    /\ []((token[1] # None /\ allParsedOk[1] /\ ~expiredSeen[1] /\ NoneCancelled)
            => posts[1] = 1)

C3_Witness ==
    \E c \in Callers :
        /\ pc[c] = "done" /\ ~emptyAtCall[c] /\ sent[c] = 0
        /\ token[1] # None
        /\ result[c] = Some(Ok(Unwrap(token[1]).access_token))
        /\ posts[1] = 1

SharesClientOne(c) ==
    /\ self[c].token = clients[1].token
    /\ self[c].token_refresh_semaphore = clients[1].token_refresh_semaphore

\* C4 as stated: every handle in use shares the token slot and the gate of the
\* built client; a call started after a token was stored, through whichever
\* handle, is served without a token request inside the validity window; and
\* calls made concurrently through the client and its clones on an empty cache
\* cause exactly one token request.
C4_Orig ==
    /\ \A c \in Callers : pc[c] # "idle" => SharesClientOne(c)
    /\ \A c \in Callers :
          (pc[c] = "done" /\ IsOk(c) /\ ~emptyAtCall[c] /\ ~expiredSeen[1])
              => sent[c] = 0
    /\ (AllDone /\ NoneCancelled /\ AllStartedEmpty /\ allParsedOk[1])
          => posts[1] = 1

\* C4 amended: the concurrent part holds provided no caller found the stored
\* token already expired when it checked the cache.
C4_CloneShare ==
    /\ \A c \in Callers : pc[c] # "idle" => SharesClientOne(c)
    /\ \A c \in Callers :
          (pc[c] = "done" /\ IsOk(c) /\ ~emptyAtCall[c] /\ ~expiredSeen[1])
              => sent[c] = 0
    /\ (AllDone /\ NoneCancelled /\ AllStartedEmpty /\ allParsedOk[1]
        /\ ~expiredSeen[1])
          => posts[1] = 1

\* The token was fetched through the clone of caller 2 and served to caller 1.
C4_Witness ==
    /\ AllDone /\ NoneCancelled /\ AllStartedEmpty /\ allParsedOk[1]
    /\ sent[2] = 1 /\ sent[1] = 0 /\ IsOk(1) /\ IsOk(2)
    /\ result[1] = result[2]
    /\ posts[1] = 1

\* C5 as stated: when a caller is cancelled while another caller's token
\* request is in flight and a caller waits on the permit, the request in
\* flight stays in flight.
C5_Orig ==
    [][\A h, w \in Callers :
          (/\ h # w /\ pc[h] = "await_resp" /\ pc[w] = "acquire"
           /\ \E x \in Callers : result[x] = None /\ result'[x] = Some(Cancelled))
              => pc'[h] = "await_resp"]_vars

\* What the claims expect of a token answer r.
RetryableStatusAnswer(r) == r.ok /\ r.status \in {429, 502, 503, 504}
Parsable2xx(r) == r.ok /\ r.status \in 200..299 /\ r.body \in TokenBodies
HardFailure(r) ==
    r.ok /\ r.status \notin 200..299 /\ r.status \notin {429, 502, 503, 504}

\* C6: a refresh sends at most max_retries + 1 token requests; when every
\* answer was a retryable status it has sent exactly max_retries + 1 and failed.
C6_AttemptBound ==
    \A c \in Callers :
        /\ sent[c] <= self[c].retry_config.max_retries + 1
        /\ (/\ pc[c] = "done" /\ result[c] # Some(Cancelled)
            /\ sent[c] >= 1 /\ onlyStatus[c] /\ ~gotToken[c])
              => /\ sent[c] = self[c].retry_config.max_retries + 1
                 /\ IsErr(c)

C6_Witness ==
    /\ pc[1] = "done" /\ IsErr(1) /\ onlyStatus[1] /\ ~gotToken[1]
    /\ self[1].retry_config.max_retries = 2
    /\ sent[1] = 3

\* C7: when attempt j is answered with a parsable 2xx after j retried
\* attempts, j + 1 requests have been sent, the access token of that answer is
\* the one kept for the store, and the store puts it in the slot and returns it.
C7_RetrySuccess ==
    /\ [][\A c \in Callers, r \in HttpResults :
            (Respond(c, r) /\ Parsable2xx(r))
                => /\ pc'[c] = "write"
                   /\ sent[c] = attempt[c] + 1
                   /\ pending'[c] # None
                   /\ Unwrap(pending'[c]).access_token = Unwrap(r.body.access_token)]_vars
    /\ [][\A c \in Callers :
            (pc[c] = "store" /\ pc'[c] # "store")
                => /\ token'[1] = pending[c]
                   /\ result'[c] = Some(Ok(Unwrap(pending[c]).access_token))
                   /\ sent'[c] = sent[c]]_vars

\* 503, 503, then a parsable 2xx: three requests and the token stored.
C7_Witness ==
    /\ pc[1] = "done" /\ IsOk(1) /\ onlyStatus[1] /\ gotToken[1]
    /\ sent[1] = 3
    /\ token[1] # None
    /\ Unwrap(token[1]).access_token = Unwrap(result[1]).token

\* C8: an answer with a non-2xx status outside {429, 502, 503, 504} ends the
\* refresh with an error at that attempt, and a call that has returned sends
\* no further token request.
C8_NoRetryOnHardFailure ==
    /\ [][\A c \in Callers, r \in HttpResults :
            (Respond(c, r) /\ HardFailure(r))
                => /\ pc'[c] = "done"
                   /\ result'[c] # None
                   /\ Unwrap(result'[c]).tag = "Err"
                   /\ posts' = posts]_vars
    /\ [][\A c \in Callers :
            pc[c] = "done" => (pc'[c] = "done" /\ sent'[c] = sent[c])]_vars

\* A 401 at attempt 0 with two retries left: one request, then the error.
C8_Witness ==
    /\ pc[1] = "done" /\ IsErr(1) /\ sent[1] = 1
    /\ self[1].retry_config.max_retries = 2
    /\ Unwrap(result[1]).kind = "Authentication"
    /\ Unwrap(result[1]).message = "access_denied"

\* The message C9 expects for an error body b.
C9_Message(b) ==
    IF b.json /\ b.message # None THEN Unwrap(b.message)
    ELSE IF b.json /\ b.error # None THEN Unwrap(b.error)
    ELSE ""

\* C9 as stated: a non-retryable non-2xx answer makes get_token fail with
\* AuthenticationError whose message is the body's message, else its error,
\* else the empty string, also when the body cannot be parsed.
C9_Orig ==
    [][\A c \in Callers, r \in HttpResults :
          (Respond(c, r) /\ HardFailure(r))
              => result'[c] = Some(Err(Authentication(C9_Message(r.body), attempt[c])))]_vars

\* C10 as stated: when the final attempt, made after at least one retry, meets
\* a retryable condition, get_token returns the transport error of that
\* attempt, or an AuthenticationError when the final answer was a retryable
\* status.
C10_Orig ==
    [][\A c \in Callers, r \in HttpResults :
          (/\ Respond(c, r) /\ attempt[c] >= 1
           /\ attempt[c] = self[c].retry_config.max_retries)
              => /\ (~r.ok /\ r.err \in {"timeout", "connect", "request"})
                       => result'[c] = Some(Err(Http(r.err, attempt[c])))
                 /\ RetryableStatusAnswer(r)
                       => /\ result'[c] # None
                          /\ Unwrap(result'[c]).kind = "Authentication"]_vars

\* ---- C11 ----
\* The decimal texts of the retry-after values the endpoint sends.
C11_Seconds == {<<"0", 0>>, <<"1", 1>>, <<"3", 3>>}

RECURSIVE C12_Pow(_, _)
C12_Pow(b, n) == IF n = 0 THEN 1 ELSE b * C12_Pow(b, n - 1)

\* C12: in a refresh without a retry-after override, the sleep before
\* attempt k (1 <= k <= max_retries) lasts
\* min(max_delay, initial_delay * multiplier^(k-1)) and never more than
\* max_delay, for every RetryConfig.
C12_Orig ==
    \A c \in Callers :
        (pc[c] = "sleep" /\ ~overridden[c])
            => LET cfg == self[c].retry_config IN
               /\ delay[c] = Min(cfg.max_delay,
                                 cfg.initial_delay
                                     * C12_Pow(cfg.multiplier, attempt[c] - 1))
               /\ delay[c] <= cfg.max_delay

\* ---- C13 ----
\* C13: the expiry instant kept for a 2xx token response with expires_in = e
\* is now + max(0, e - 60), with now read while the response is handled, and
\* that value is what the slot receives; a later check of the slot returns
\* the stored token when its clock reading is strictly before that instant
\* and starts a refresh when it is at or after it (for e = 3600: expired from
\* now + 3540 on, valid before).
C13_Expiry ==
    /\ [][\A c \in Callers, r \in ExpiryResults, e \in {59, 61, 3600} :
            (/\ Respond(c, r)
             /\ r.ok /\ r.status \in 200..299
             /\ r.body.expires_in = Some(e))
                => pending'[c] =
                       Some([access_token |-> Unwrap(r.body.access_token),
                             expires_at |-> now + (IF e > 60 THEN e - 60 ELSE 0)])]_vars
    /\ [][\A c \in Callers :
            (pc[c] = "store" /\ pc'[c] # "store")
                => token'[self[c].token] = pending[c]]_vars
    /\ [][\A c \in Callers :
            (/\ pc[c] \in {"check1", "check2"} /\ pc'[c] # pc[c]
             /\ token[self[c].token] # None)
                => LET info == token[self[c].token][1] IN
                   IF now < info.expires_at
                   THEN /\ pc'[c] = "done"
                        /\ result'[c] = Some(Ok(info.access_token))
                        /\ sent'[c] = sent[c]
                   ELSE /\ result'[c] = None
                        /\ pc'[c] \in {"acquire", "await_resp"}]_vars

\* A token of expires_in = 3600 stored at second 0 is found expired by a call
\* whose check reads second 3540, and that call has sent a new request.
C13_Witness ==
    /\ now = 3540
    /\ token[1] # None /\ token[1][1].expires_at = 3540
    /\ posts[1] = 2
    /\ \E c \in Callers : pc[c] = "await_resp" /\ sent[c] = 1 /\ attempt[c] = 0

\* ---- C14 ----
\* C14: when send() of attempt k fails with a connect, timeout or request
\* error, the refresh goes on to attempt k + 1 (a sleep, then one more
\* request) if k < max_retries; if k = max_retries, get_token returns the
\* Http error of that final attempt.
C14_TransportRetry ==
    /\ [][\A c \in Callers, r \in HttpResults :
            (Respond(c, r) /\ ~r.ok /\ r.err \in {"connect", "timeout", "request"})
                => IF attempt[c] < self[c].retry_config.max_retries
                   THEN /\ pc'[c] = "sleep"
                        /\ attempt'[c] = attempt[c] + 1
                        /\ result'[c] = None
                   ELSE /\ pc'[c] = "done"
                        /\ result'[c] =
                               Some([tag |-> "Err", token |-> "", kind |-> "Http",
                                     message |-> r.err, at |-> attempt[c]])]_vars
    /\ [][\A c \in Callers :
            (pc[c] = "sleep" /\ pc'[c] # "sleep" /\ result'[c] # Some(Cancelled))
                => (pc'[c] = "await_resp" /\ sent'[c] = sent[c] + 1)]_vars

\* Three attempts were made and the connect error of the last one returned.
C14_Witness ==
    /\ pc[1] = "done" /\ sent[1] = 3
    /\ self[1].retry_config.max_retries = 2
    /\ ~onlyStatus[1]
    /\ result[1] = Some([tag |-> "Err", token |-> "", kind |-> "Http",
                          message |-> "connect", at |-> 2])

\* ---- C15 ----
\* A body that does not decode to access_token and expires_in.
C15_Unparsable(b) == ~b.json \/ b.access_token = None \/ b.expires_in = None

\* C15: a 2xx answer whose body cannot be parsed ends the refresh at once
\* with an error, whatever number of retries remains: the caller is done, no
\* request follows, and the slot keeps its content.
C15_NoRetryOnBadBody ==
    /\ [][\A c \in Callers, r \in HttpResults :
            (/\ Respond(c, r)
             /\ r.ok /\ r.status \in 200..299 /\ C15_Unparsable(r.body))
                => /\ pc'[c] = "done"
                   /\ result'[c] # None /\ result'[c][1].tag = "Err"
                   /\ token' = token
                   /\ posts' = posts]_vars
    /\ [][\A c \in Callers :
            (pc[c] = "done" /\ last2xx[c] /\ ~gotToken[c])
                => (pc'[c] = "done" /\ sent'[c] = sent[c] /\ token' = token)]_vars

\* The first answer was a 2xx with a bad body: one request, two retries
\* unused, an error returned and the slot still empty.
C15_Witness ==
    /\ pc[1] = "done" /\ sent[1] = 1 /\ posts[1] = 1
    /\ self[1].retry_config.max_retries = 2
    /\ last2xx[1] /\ ~gotToken[1]
    /\ result[1] # None /\ result[1][1].tag = "Err"
    /\ token[1] = None

\* ---- C16 ----
\* C16: a 2xx answer whose body cannot be parsed makes get_token fail with
\* the Json (decoding) variant, not the Http or Authentication variant.
C16_Orig ==
    [][\A c \in Callers, r \in HttpResults :
        (/\ Respond(c, r)
         /\ r.ok /\ r.status \in 200..299 /\ C15_Unparsable(r.body))
            => /\ result'[c] # None
               /\ result'[c][1].tag = "Err"
               /\ result'[c][1].kind = "Json"]_vars

\* ---- C17 ----
\* C17: when get_token fails inside get, post, patch or delete, the operation
\* returns that same error and sends no resource request; a resource request
\* has only ever been sent by an operation whose own get_token call returned
\* a token.
C17_TokenFirst ==
    /\ [][\A c \in Callers :
            (/\ rpc[c] = "token" /\ rpc'[c] # "token"
             /\ result[c] # None /\ result[c][1].tag = "Err")
                => /\ rpc'[c] = "returned"
                   /\ requests'[c] = requests[c]
                   /\ reply'[c] # None
                   /\ reply'[c][1].tag = "Err"
                   /\ reply'[c][1].kind = result[c][1].kind
                   /\ reply'[c][1].message = result[c][1].message
                   /\ reply'[c][1].at = result[c][1].at]_vars
    /\ [](\A c \in Callers :
            requests[c] >= 1
                => /\ pc[c] = "done"
                   /\ result[c] # None /\ result[c][1].tag = "Ok"
                   /\ rpc[c] \in {"await_res", "returned"})

\* A delete whose token request was answered 401 returned the Authentication
\* error of get_token and sent nothing to the resource endpoint.
C17_Witness ==
    /\ rpc[1] = "returned" /\ method[1] = "delete"
    /\ requests[1] = 0 /\ sent[1] = 1
    /\ result[1] # None /\ result[1][1].tag = "Err"
    /\ reply[1] # None
    /\ reply[1][1].kind = "Authentication"
    /\ reply[1][1].message = "access_denied"

\* ---- C18 ----
\* C18: an operation sends at most one resource request whatever comes back:
\* the answer to the request makes the operation return, a returned operation
\* sends nothing more, and a 429 answer gives a RateLimited error after
\* exactly one request.
C18_SingleRequest ==
    /\ [](\A c \in Callers : requests[c] <= 1)
    /\ [][\A c \in Callers :
            (rpc[c] = "await_res" /\ rpc'[c] # "await_res")
                => (rpc'[c] = "returned" /\ requests'[c] = requests[c])]_vars
    /\ [][\A c \in Callers :
            rpc[c] = "returned"
                => (rpc'[c] = "returned" /\ requests'[c] = requests[c]
                    /\ reply'[c] = reply[c])]_vars
    /\ [][\A c \in Callers, r \in ResourceResults :
            (ResourceRespond(c, r) /\ r.ok /\ r.status = 429)
                => /\ requests'[c] = 1
                   /\ reply'[c] # None
                   /\ reply'[c][1].kind = "RateLimited"]_vars

\* A get answered 429 without a retry-after header returned RateLimited after
\* one request.
C18_Witness ==
    /\ rpc[1] = "returned" /\ method[1] = "get"
    /\ requests[1] = 1
    /\ reply[1] # None
    /\ reply[1][1].kind = "RateLimited"
    /\ reply[1][1].retry_after = None

\* ---- C19 ----
\* The value of a retry-after header: its integer, or nothing when the header
\* is absent or not an integer.
C19_RetryAfter(header) ==
    CASE header = Some("0") -> Some(0)
      [] header = Some("1") -> Some(1)
      [] header = Some("3") -> Some(3)
      [] OTHER -> None

\* C19: a resource answer with status 429 makes the operation return
\* RateLimited whose retry_after is the integer of the retry-after header when
\* the header is present and an integer, and none otherwise; the body of the
\* answer has no influence.
C19_RateLimited ==
    [][\A c \in Callers, r \in ResourceResults :
        (ResourceRespond(c, r) /\ r.ok /\ r.status = 429)
            => reply'[c] =
                   Some([tag |-> "Err", kind |-> "RateLimited", message |-> "",
                         at |-> -1, status |-> 0, error_code |-> None,
                         retry_after |-> C19_RetryAfter(r.retry_after)])]_vars

\* A patch answered 429 with retry-after: 3 returned RateLimited with 3 seconds.
C19_Witness ==
    /\ rpc[1] = "returned" /\ method[1] = "patch"
    /\ reply[1] # None
    /\ reply[1][1].kind = "RateLimited"
    /\ reply[1][1].retry_after = Some(3)

\* ---- C20 ----
\* The message of a parsed error body: its message, else its error, else "".
C20_Message(b) ==
    IF b.message # None THEN b.message[1]
    ELSE IF b.error # None THEN b.error[1]
    ELSE ""

C21_Orig ==
    [][\A c \in Callers, r \in ResourceResults :
        (ResourceRespond(c, r) /\ r.ok /\ r.status \in 200..299)
            => /\ reply'[c] # None
               /\ IF method[c] = "delete" \/ r.body.decodes
                  THEN reply'[c][1].tag = "Ok"
                  ELSE /\ reply'[c][1].tag = "Err"
                       /\ reply'[c][1].kind = "Json"]_vars

\* ---- C22 ----
\* C22: a call whose fast-path check finds a stored token with now before its
\* expiry returns it in that step without taking a permit, also when the
\* permit is held by another caller; while no caller holds or awaits the
\* write lock (in particular while the permit holder awaits a response or
\* sleeps) a caller waiting for the read lock can take it, however many
\* readers hold it, and a caller holding the read lock can always finish its
\* check.
C22_FastPath ==
    /\ [][\A c \in Callers :
            (/\ pc[c] = "check1" /\ pc'[c] # "check1"
             /\ token[self[c].token] # None
             /\ now < token[self[c].token][1].expires_at)
                => /\ pc'[c] = "done"
                   /\ result'[c] = Some(Ok(token[self[c].token][1].access_token))
                   /\ permits' = permits]_vars
    /\ [](\A c \in Callers :
            (/\ pc[c] = "read1"
             /\ \A d \in Callers : pc[d] \notin {"write", "store"})
                => ENABLED ReadLock(c))
    /\ [](\A c \in Callers : pc[c] = "check1" => ENABLED FastPath(c))

\* A call returned the stored token by the fast path, with no request of its
\* own, at a moment when the other caller held the permit, and that caller
\* still holds it.
C22_Witness ==
    \E c, d \in Callers :
        /\ c # d
        /\ pc[c] = "done" /\ heldAtReturn[c] /\ sent[c] = 0
        /\ result[c] # None /\ result[c][1].tag = "Ok"
        /\ pc[d] \in {"read2", "check2"} /\ permits[1] = 0

\* ---- C23 ----
\* A step of get_token itself or the arrival of an answer, for some caller.
C23_Progress ==
    \E c \in Callers :
        \/ ReadLock(c) \/ FastPath(c) \/ Acquire(c) \/ DoubleCheck(c)
        \/ SleepDone(c) \/ WriteLock(c) \/ Store(c)
        \/ \E r \in SharedResults : Respond(c, r)

\* C23: no reachable state is a deadlock. The read guards of a slot are held
\* exactly by the callers inside a check and the write guard by the caller
\* storing, so a caller waiting for the permit holds no lock; a caller waiting
\* for the permit can take it unless another caller holds it; the permit
\* holder waiting for the write lock can take it unless a caller is inside a
\* check, and that caller can finish; and while any call is under way some
\* caller can take a step.
C23_Locks ==
    /\ \A k \in Clients :
        /\ rwlock[k].readers =
               Cardinality({c \in Callers :
                   self[c].token = k /\ pc[c] \in {"check1", "check2"}})
        /\ rwlock[k].writer <=> \E c \in Callers : self[c].token = k /\ pc[c] = "store"
    /\ \A c \in Callers :
        /\ pc[c] = "acquire"
              => \/ ENABLED Acquire(c)
                 \/ \E d \in Callers \ {c} :
                       pc[d] \in {"read2", "check2", "await_resp", "sleep", "write", "store"}
        /\ pc[c] = "write"
              => \/ ENABLED WriteLock(c)
                 \/ \E d \in Callers \ {c} :
                       pc[d] = "check1" /\ ENABLED FastPath(d)
    /\ (\E c \in Callers : pc[c] \notin {"idle", "done"}) => ENABLED C23_Progress

C23_NoDeadlock == [](C23_Locks)

\* The permit holder is queued for the write lock behind a reader inside its
\* fast-path check.
C23_Witness ==
    \E c, d \in Callers :
        /\ pc[c] = "write" /\ permits[1] = 0
        /\ pc[d] = "check1" /\ rwlock[1].readers = 1

\* ---- C24 ----
\* C24: when every exchange and every sleep completes and the permit is
\* granted fairly, every get_token call that was started returns, with a token
\* or with one error; the first request of a refresh is attempt 0, a call
\* sends at most max_retries + 1 requests, and a call that has returned takes
\* no further step and keeps its outcome.
C24_Terminates ==
    /\ \A c \in Callers :
        (pc[c] \notin {"idle", "done"})
            ~> (/\ pc[c] = "done"
                /\ result[c] # None
                /\ result[c][1].tag \in {"Ok", "Err"})
    /\ [](\A c \in Callers :
            /\ sent[c] <= self[c].retry_config.max_retries + 1
            /\ (pc[c] = "await_resp" /\ sent[c] = 1) => attempt[c] = 0)
    /\ [][\A c \in Callers :
            pc[c] = "done"
                => /\ pc'[c] = "done"
                   /\ result'[c] = result[c]
                   /\ sent'[c] = sent[c]]_vars

\* Both calls have returned: one failed after max_retries + 1 = 2 attempts
\* separated by a sleep of one second, the other got a token.
C24_Witness ==
    \E c, d \in Callers :
        /\ pc[c] = "done" /\ pc[d] = "done"
        /\ result[c] # None /\ result[c][1].tag = "Err" /\ sent[c] = 2
        /\ result[d] # None /\ result[d][1].tag = "Ok"
        /\ now >= 1


\* ------------------------------------------------------------ C25
\* C25: clients of separate build() calls have separate token slots and
\* separate refresh gates: the handles name different slots and semaphores, a
\* step of a caller changes only the slot, lock and permit of its own client,
\* a caller waiting for the permit can take it whenever the permit of its own
\* client is free, whoever holds the other client's, and a caller returns a
\* token only after its own client has sent a token request.
C25_Distinct ==
    /\ \A m, n \in Clients :
         (clients[m].live /\ clients[n].live /\ m # n) =>
            /\ clients[m].token # clients[n].token
            /\ clients[m].token_refresh_semaphore # clients[n].token_refresh_semaphore
    /\ \A c \in Callers :
         (pc[c] = "acquire" /\ permits[Origin(c)] = SemaphorePermits) =>
            ENABLED Acquire(c)
    /\ \A c \in Callers :
         (pc[c] = "done" /\ IsSome(result[c]) /\ Unwrap(result[c]).tag = "Ok") =>
            posts[Origin(c)] >= 1

C25_OwnOnly ==
    \A c \in Callers : \A n \in Clients :
        (pc'[c] # pc[c] /\ pc[c] # "idle" /\ n # Origin(c)) =>
            /\ token'[n] = token[n]
            /\ permits'[n] = permits[n]
            /\ rwlock'[n] = rwlock[n]

C25_Separate == [](C25_Distinct) /\ [][C25_OwnOnly]_vars

\* Both clients refresh at once: each caller holds the permit of its client.
C25_Witness ==
    /\ Origin(1) = 1 /\ Origin(2) = 2
    /\ pc[1] = "store" /\ pc[2] = "await_resp"
    /\ permits[1] = 0 /\ permits[2] = 0
    /\ token[2] = None

\* ------------------------------------------------------------ C26
\* C26: build() with domain, client_id or client_secret unset returns a
\* Configuration error and constructs no client, whichever other fields are set;
\* a successful build() gives a client whose token slot is absent and whose gate
\* has one free permit.
C26_Required(b) ==
    IsSome(b.domain) /\ IsSome(b.client_id) /\ IsSome(b.client_secret)

C26_Step ==
    \A b \in Builders :
        Build(b) =>
            /\ ~C26_Required(b) =>
                  /\ ~Unwrap(buildResult').ok
                  /\ Unwrap(buildResult').kind = "Configuration"
                  /\ clients' = clients /\ built' = built
                  /\ token' = token /\ permits' = permits
            /\ Unwrap(buildResult').ok =>
                  /\ built' = built + 1
                  /\ clients'[built'].live
                  /\ token'[clients'[built'].token] = None
                  /\ permits'[clients'[built'].token_refresh_semaphore] = 1
                  /\ rwlock'[clients'[built'].token] = [readers |-> 0, writer |-> FALSE]

C26_Build == [][C26_Step]_vars

\* A build() without client_secret failed after another build() had given a client.
C26_Witness ==
    /\ IsSome(buildResult)
    /\ ~Unwrap(buildResult).ok
    /\ Unwrap(buildResult).message = "client_secret is required"
    /\ built = 1 /\ clients[1].live /\ ~clients[2].live

\* ------------------------------------------------------------ C27
\* C27: for every identifier, the path of the request has the identifier in
\* exactly one segment after the collection's segments, no "/" of the
\* identifier splits it, and percent-decoding that segment gives the identifier.
C27_Orig ==
    IsSome(target.path) =>
        LET path == Unwrap(target.path)
        IN  /\ Len(path) = 4
            /\ SubSeq(path, 1, 2) = << <<"a", "p", "i">>, <<"v", "2">> >>
            /\ path[3] \in {<<"c", "l", "i", "e", "n", "t", "s">>,
                            <<"l", "o", "g", "s">>}
            /\ decode(path[4]) = target.id

\* ------------------------------------------------------------ C28
\* C28: a caller on the slow path sends no token request before it holds the
\* permit and has read the slot again; at that re-check a valid token in the
\* slot is returned and no request is sent, and a request is sent exactly when
\* the slot is absent or expired.
C28_Step ==
    \A c \in Callers :
        /\ (pc[c] = "check2" /\ pc'[c] \in {"done", "await_resp"}) =>
              IF TokenValid(token[Slot(c)], now)
              THEN /\ pc'[c] = "done"
                   /\ result'[c] = Some(Ok(Unwrap(token[Slot(c)]).access_token))
                   /\ sent'[c] = sent[c]
                   /\ posts' = posts
              ELSE /\ pc'[c] = "await_resp"
                   /\ sent'[c] = sent[c] + 1
                   /\ posts'[Origin(c)] = posts[Origin(c)] + 1
        /\ (sent[c] = 0 /\ sent'[c] = 1) =>
              pc[c] = "check2" /\ ~TokenValid(token[Slot(c)], now)

C28_Recheck ==
    /\ [](\A c \in Callers :
            pc[c] \in {"read1", "acquire", "read2", "check2"} => sent[c] = 0)
    /\ [][C28_Step]_vars

\* Caller 2 holds the permit and has read, at the re-check, the valid token
\* that the refresh of caller 1 stored while caller 2 waited for the permit.
C28_Witness ==
    /\ pc[2] = "check2"
    /\ TokenValid(token[Slot(2)], now)
    /\ emptyAtCall[2]
    /\ pc[1] = "done" /\ sent[1] = 1 /\ gotToken[1]

\* ------------------------------------------------------------ C29
\* C29: the token slot changes only when a caller whose last answer was a
\* parsed 2xx stores it, and then access token and expiry are both replaced by
\* the pair made from that one answer; an answer itself, whatever it is, and
\* every other step leave the slot as it was.
C29_FromAnswer(r, slot) ==
    /\ r.ok /\ is_success(r.status)
    /\ IsSome(ParseTokenResponse(r.body))
    /\ slot = Some([access_token |-> Unwrap(r.body.access_token),
                    expires_at |-> ExpiresAt(now, Unwrap(r.body.expires_in))])

C29_Step ==
    /\ token' # token =>
          \E c \in Callers :
             /\ pc[c] = "store" /\ pc'[c] = "done"
             /\ last2xx[c] /\ gotToken[c]
             /\ IsSome(pending[c])
             /\ token' = [token EXCEPT ![Slot(c)] = pending[c]]
             /\ result'[c] = Some(Ok(Unwrap(pending[c]).access_token))
    /\ \A c \in Callers :
          (pc[c] = "await_resp" /\ pc'[c] # "await_resp") =>
             \A r \in SharedResults :
                Respond(c, r) =>
                   /\ token' = token
                   /\ pc'[c] = "write" <=> C29_FromAnswer(r, pending'[c])
                   /\ pc'[c] # "write" => pending'[c] = None

C29_SlotWrite ==
    /\ [](\A c \in Callers :
            pc[c] \in {"write", "store"} => IsSome(pending[c]) /\ last2xx[c])
    /\ [][C29_Step]_vars

\* The refresh of caller 2 stored a token that was expired at once; the refresh
\* of caller 1 that followed was refused, and the slot still holds the pair of
\* caller 2's answer.
C29_Witness ==
    /\ pc[2] = "done" /\ result[2] = Some(Ok("t1"))
    /\ pc[1] = "done" /\ Unwrap(result[1]).tag = "Err" /\ sent[1] = 1
    /\ posts[1] = 2
    /\ token[1] = Some([access_token |-> "t1", expires_at |-> 0])

\* ------------------------------------------------------------ C30
\* C30: within one refresh the first request is sent from the re-check with no
\* sleep before it; every later request is sent when a sleep ends and every
\* sleep is followed by one request, so one sleep precedes each attempt k >= 1;
\* a sleep starts only after an answer to an attempt before the last one, never
\* after the last attempt or after the call has returned; when a sleep ends the
\* delay becomes min(max_delay, delay * multiplier) in the step that sends the
\* request of that attempt.
C30_Counts ==
    \A c \in Callers :
        /\ pc[c] = "await_resp" => sent[c] = attempt[c] + 1
        /\ pc[c] = "sleep" =>
              /\ sent[c] = attempt[c]
              /\ attempt[c] \in 1..Cfg(c).max_retries

C30_Step ==
    \A c \in Callers :
        /\ (sent'[c] = sent[c] + 1 /\ sent[c] = 0) =>
              /\ pc[c] = "check2" /\ attempt'[c] = 0
              /\ delay'[c] = Cfg(c).initial_delay
        /\ (sent'[c] = sent[c] + 1 /\ sent[c] >= 1) => pc[c] = "sleep"
        /\ (pc[c] = "sleep" /\ pc'[c] # "sleep") =>
              \/ pc'[c] = "done" /\ result'[c] = Some(Cancelled)
              \/ /\ pc'[c] = "await_resp"
                 /\ now >= wake[c]
                 /\ sent'[c] = sent[c] + 1
                 /\ attempt'[c] = attempt[c]
                 /\ delay'[c] =
                       IF delay[c] * Cfg(c).multiplier <= Cfg(c).max_delay
                       THEN delay[c] * Cfg(c).multiplier
                       ELSE Cfg(c).max_delay
        /\ (pc'[c] = "sleep" /\ pc[c] # "sleep") =>
              /\ pc[c] = "await_resp"
              /\ attempt[c] < Cfg(c).max_retries
              /\ attempt'[c] = attempt[c] + 1
              /\ wake'[c] = now + delay'[c]
              /\ sent'[c] = sent[c]
        /\ pc[c] = "done" => pc'[c] = "done"

C30_Sleeps == [](C30_Counts) /\ [][C30_Step]_vars

\* The third request of a refresh is out: two sleeps are over and the delay,
\* 1 at the start, was doubled to 2 and then held at max_delay.
C30_Witness ==
    /\ pc[1] = "await_resp"
    /\ attempt[1] = 2 /\ sent[1] = 3
    /\ Cfg(1).initial_delay = 1
    /\ delay[1] = 2
    /\ now >= 3

\* ------------------------------------------------------------ C31
\* C31: an answer that is retried changes the delay only when it is a 429
\* whose retry-after header is an integer; a 429 without the header or with
\* another text in it, and a 502, 503 or 504 with or without the header, leave
\* the delay as the backoff schedule had it, and the sleep that follows lasts
\* that delay.
C31_IntegerHeader(r) ==
    r.retry_after \in {Some("0"), Some("1"), Some("3")}

C31_Step ==
    \A c \in Callers :
        (pc[c] = "await_resp" /\ pc'[c] = "sleep") =>
            \A r \in HttpResults :
                (Respond(c, r) /\ r.ok /\ ~(r.status = 429 /\ C31_IntegerHeader(r))) =>
                    /\ r.status \in {429, 502, 503, 504}
                    /\ delay'[c] = delay[c]
                    /\ wake'[c] = now + delay[c]
                    /\ overridden'[c] = overridden[c]

C31_OnlyInteger429 == [][C31_Step]_vars

\* A 429 without an integer retry-after has been answered at attempt 0: the
\* sleep before attempt 1 lasts initial_delay.
C31_Witness ==
    /\ pc[1] = "sleep" /\ attempt[1] = 1
    /\ last_error[1] = Some(Authentication(StatusMessage(429), 0))
    /\ ~overridden[1]
    /\ Cfg(1).initial_delay = 1
    /\ delay[1] = 1 /\ wake[1] = now + 1

\* ------------------------------------------------------------ C32
\* C32: a failed refresh is not shared. A caller whose every token request was
\* answered with a retryable status has sent max_retries + 1 requests of its
\* own and has its own error, of its own last attempt; when all K callers
\* ended so, K * (max_retries + 1) requests were sent in total; and at no time
\* are two callers between acquiring the permit and returning.
C32_Failed(c) ==
    /\ pc[c] = "done"
    /\ Unwrap(result[c]).tag = "Err"
    /\ onlyStatus[c] /\ ~gotToken[c]

C32_State ==
    /\ \A c \in Callers :
          C32_Failed(c) =>
             /\ sent[c] = Cfg(c).max_retries + 1
             /\ Unwrap(result[c]).at = Cfg(c).max_retries
    /\ (\A c \in Callers : C32_Failed(c)) =>
          /\ posts[1] = NumCallers * (clients[1].retry_config.max_retries + 1)
          /\ token[1] = None
    /\ \A c, d \in Callers :
          (c # d /\ pc[c] \in PermitHeld) => pc[d] \notin PermitHeld

C32_NotShared == [](C32_State)

\* Both callers found the cache empty, each sent two requests that were
\* answered 503, and each has its error: four requests in all.
C32_Witness ==
    /\ \A c \in Callers : C32_Failed(c) /\ sent[c] = 2 /\ emptyAtCall[c]
    /\ posts[1] = 4

\* ------------------------------------------------------------ C33
\* C33: the permit is given back on every way out of the slow path: the free
\* permits of a gate are always one less the callers between acquire and
\* return, a caller that leaves that region frees one permit in the same step,
\* and when no caller is in the region the acquire() of every caller waiting
\* for the permit can complete.
C33_Inside == {"read2", "check2", "await_resp", "sleep", "write", "store"}

C33_Free ==
    /\ \A s \in Clients :
          permits[s] =
             1 - Cardinality({c \in Callers : pc[c] \in C33_Inside /\ Sem(c) = s})
    /\ (\A c \in Callers : pc[c] \notin C33_Inside) =>
          \A c \in Callers : pc[c] = "acquire" => Acquirable(Sem(c))

C33_Exit ==
    \A c \in Callers :
        (pc[c] \in C33_Inside /\ pc'[c] \notin C33_Inside) =>
            /\ pc'[c] = "done"
            /\ permits'[Sem(c)] = permits[Sem(c)] + 1

C33_Released == [](C33_Free) /\ [][C33_Exit]_vars

\* The holder was cancelled after it had sent a request; the permit is free
\* again and the other caller is waiting for it.
C33_Witness ==
    /\ pc[1] = "done" /\ result[1] = Some(Cancelled) /\ sent[1] = 1
    /\ pc[2] = "acquire"
    /\ permits[1] = 1

\* ------------------------------------------------------------ C34
\* C34: a caller in the attempt loop, awaiting an answer, asleep between
\* attempts or storing, holds the permit: the gate has no free permit, so the
\* acquire() of every other caller of the client cannot complete. The write
\* lock of a slot is held exactly while one caller is in its store step, the
\* read guards are those of the callers at a cache check, and so a caller that
\* awaits an answer, sleeps or waits for the permit holds no lock of the slot.
C34_Loop == {"await_resp", "sleep", "write", "store"}

C34_State ==
    /\ \A c \in Callers :
          pc[c] \in C34_Loop =>
             /\ permits[Sem(c)] = 0
             /\ \A d \in Callers :
                   (d # c /\ pc[d] # "idle" /\ Sem(d) = Sem(c)) =>
                      /\ pc[d] \in {"read1", "check1", "acquire", "done"}
                      /\ pc[d] = "acquire" => ~Acquirable(Sem(d))
    /\ \A s \in Clients :
          /\ rwlock[s].writer <=>
                (\E c \in Callers : pc[c] = "store" /\ Slot(c) = s)
          /\ rwlock[s].readers =
                Cardinality({c \in Callers :
                                pc[c] \in {"check1", "check2"} /\ Slot(c) = s})
          /\ rwlock[s].writer => rwlock[s].readers = 0

C34_Held == [](C34_State)

\* Caller 1 sleeps between two attempts with the permit; caller 2 waits for
\* the permit; nobody holds a lock of the slot.
C34_Witness ==
    /\ pc[1] = "sleep" /\ attempt[1] = 1
    /\ pc[2] = "acquire"
    /\ permits[1] = 0
    /\ rwlock[1] = [readers |-> 0, writer |-> FALSE]

\* ------------------------------------------------------------ C35
\* C35: with every granted token of expires_in <= 60, the expiry kept for an
\* answer is the instant the answer is handled, a stored token is expired at
\* every instant from then on, no check of the slot returns it, and every call
\* that returns a token has sent a request of its own and returns the token of
\* its own answer.
C35_State ==
    /\ \A s \in Clients :
          IsSome(token[s]) => Unwrap(token[s]).expires_at <= now
    /\ \A c \in Callers :
          (pc[c] = "done" /\ Unwrap(result[c]).tag = "Ok") =>
             sent[c] >= 1 /\ gotToken[c]

C35_Step ==
    \A c \in Callers :
        /\ (pc[c] = "await_resp" /\ pc'[c] = "write") =>
              Unwrap(pending'[c]).expires_at = now
        /\ (pc[c] = "check1" /\ pc'[c] # "check1") =>
              pc'[c] = "acquire" /\ result'[c] = None
        /\ (pc[c] = "check2" /\ pc'[c] # "check2") =>
              pc'[c] = "await_resp" /\ sent'[c] = 1

C35_NeverServed == [](C35_State) /\ [][C35_Step]_vars

\* Caller 2 waited for the permit while the refresh of caller 1 stored its
\* token; it found that token expired and fetched one of its own.
C35_Witness ==
    /\ pc[1] = "done" /\ result[1] = Some(Ok("t1"))
    /\ pc[2] = "done" /\ result[2] = Some(Ok("t2"))
    /\ sent[1] = 1 /\ sent[2] = 1 /\ posts[1] = 2
    /\ now = 0

\* ------------------------------------------------------------ C36
\* C36: get_token never returns RateLimited. A 429 of the token endpoint is
\* followed by the sleep of the next attempt while attempts remain, and at the
\* last attempt by the error read from its body (Authentication, or the
\* decode error when the body does not parse). An operation returns
\* RateLimited only in the step in which its own request is answered 429, after
\* get_token gave it a token.
C36_State ==
    \A c \in Callers :
        /\ (pc[c] = "done" /\ Unwrap(result[c]).tag = "Err") =>
              Unwrap(result[c]).kind \in {"Http", "Authentication"}
        /\ (IsSome(reply[c]) /\ Unwrap(reply[c]).kind = "RateLimited") =>
              /\ requests[c] = 1
              /\ pc[c] = "done" /\ Unwrap(result[c]).tag = "Ok"

C36_Step ==
    \A c \in Callers :
        /\ (pc[c] = "await_resp" /\ pc'[c] # "await_resp") =>
              \A r \in OpTokenResults :
                 (Respond(c, r) /\ r.ok /\ r.status = 429) =>
                    IF attempt[c] < Cfg(c).max_retries
                    THEN pc'[c] = "sleep" /\ result'[c] = None
                    ELSE /\ pc'[c] = "done"
                         /\ Unwrap(result'[c]).tag = "Err"
                         /\ Unwrap(result'[c]).kind =
                               IF r.body.json THEN "Authentication" ELSE "Http"
        /\ (IsSome(reply'[c]) /\ Unwrap(reply'[c]).kind = "RateLimited"
               /\ reply'[c] # reply[c]) =>
              /\ rpc[c] = "await_res"
              /\ \E r \in ResourceResults :
                    r.ok /\ r.status = 429 /\ ResourceRespond(c, r)

C36_NoRateLimit == [](C36_State) /\ [][C36_Step]_vars

\* Both attempts of a refresh were answered 429 by the token endpoint: the
\* operation returned get_token's Authentication error and sent no request.
C36_Witness ==
    /\ pc[1] = "done" /\ sent[1] = 2
    /\ onlyStatus[1] /\ ~gotToken[1]
    /\ Unwrap(result[1]).kind = "Authentication"
    /\ rpc[1] = "returned" /\ requests[1] = 0
    /\ Unwrap(reply[1]).kind = "Authentication"

\* ------------------------------------------------------------ C37
\* C37: the step in which the request of an operation is answered (2xx, 401,
\* 429, another status, transport failure) leaves the token slot as it was; a
\* slot that holds a token never becomes absent again; and the get_token of
\* the operation that follows one answered 401 returns, while now is before
\* the stored expiry, the stored token and sends no token request.
C37_After401(c) ==
    /\ IsSome(reply[c])
    /\ Unwrap(reply[c]).kind = "Api" /\ Unwrap(reply[c]).status = 401

C37_Step ==
    /\ \A c \in Callers :
          (rpc[c] = "await_res" /\ rpc'[c] # "await_res") => token' = token
    /\ \A s \in Clients : IsSome(token[s]) => IsSome(token'[s])
    /\ \A c \in Callers :
          (/\ pc[c] = "check1" /\ pc'[c] # "check1"
           /\ C37_After401(c)
           /\ IsSome(token[Slot(c)])
           /\ now < Unwrap(token[Slot(c)]).expires_at) =>
              /\ pc'[c] = "done"
              /\ result'[c] = Some(Ok(Unwrap(token[Slot(c)]).access_token))
              /\ sent'[c] = 0
              /\ posts' = posts
              /\ token' = token

C37_SlotKept == [][C37_Step]_vars

\* The first operation was answered 401; the get_token of the second returned
\* the token stored for the first, and one token request was sent in all.
C37_Witness ==
    /\ calls[1] = 2 /\ C37_After401(1)
    /\ rpc[1] = "token" /\ pc[1] = "done"
    /\ result[1] = Some(Ok("t1")) /\ sent[1] = 0
    /\ posts[1] = 1
    /\ token[1] = Some([access_token |-> "t1", expires_at |-> 1])

\* ------------------------------------------------------------ C38
\* C38: the sleep that follows a retry-after override of s seconds lasts s, and
\* when the attempt after it is retried without an override of its own, the
\* next sleep lasts min(max_delay, s * multiplier), whatever the delay was
\* before the override; after an override of 0 seconds every later sleep of
\* the refresh without an override lasts 0 seconds.
C38_Cap(cfg, d) ==
    IF d * cfg.multiplier <= cfg.max_delay THEN d * cfg.multiplier
    ELSE cfg.max_delay

C38_Step ==
    \A c \in Callers :
        (pc[c] = "await_resp" /\ pc'[c] = "sleep" /\ IsSome(lastOverride'[c])) =>
            LET last == Unwrap(lastOverride'[c]) IN
            /\ last.at = attempt[c] => wake'[c] = now + last.seconds
            /\ last.at = attempt[c] - 1 =>
                  /\ delay'[c] = C38_Cap(Cfg(c), last.seconds)
                  /\ wake'[c] = now + C38_Cap(Cfg(c), last.seconds)

C38_Zero ==
    \A c \in Callers :
        (/\ pc[c] = "sleep" /\ IsSome(lastOverride[c])
         /\ Unwrap(lastOverride[c]).seconds = 0) =>
            delay[c] = 0

C38_FromOverride == [](C38_Zero) /\ [][C38_Step]_vars

\* With initial_delay 1 the 429 at attempt 0 carried retry-after: 0; the
\* answer to attempt 1 was retried without an override and the sleep before
\* attempt 2 lasts 0 seconds, where the schedule without the override has 2.
C38_Witness ==
    /\ pc[1] = "sleep" /\ attempt[1] = 2
    /\ lastOverride[1] = Some([seconds |-> 0, at |-> 0])
    /\ Cfg(1).initial_delay = 1
    /\ delay[1] = 0 /\ wake[1] = now

\* ------------------------------------------------------------ C39
\* C39: the loop index never passes max_retries; the answer to the last
\* attempt makes the call return, or go on to store the token it carried, and
\* never leads to a sleep; and no call returns what the code after the loop
\* would return: the recorded "Token request failed with status N" or "Token
\* refresh failed after retries".
C39_FallbackMessages ==
    {StatusMessage(s) : s \in {429, 502, 503, 504}}
        \cup {"Token refresh failed after retries"}

C39_State ==
    \A c \in Callers :
        /\ pc[c] # "idle" => attempt[c] <= Cfg(c).max_retries
        /\ (pc[c] = "done" /\ Unwrap(result[c]).tag = "Err") =>
              Unwrap(result[c]).message \notin C39_FallbackMessages

C39_Step ==
    \A c \in Callers :
        (/\ pc[c] = "await_resp" /\ pc'[c] # "await_resp"
         /\ attempt[c] = Cfg(c).max_retries) =>
            /\ pc'[c] \in {"done", "write"}
            /\ pc'[c] = "done" =>
                  /\ Unwrap(result'[c]).tag \in {"Err", "Cancelled"}
                  /\ Unwrap(result'[c]).tag = "Err" =>
                        Unwrap(result'[c]).at = attempt[c]

C39_ReturnsInside == [](C39_State) /\ [][C39_Step]_vars

\* Three attempts were all answered with a retryable status; the call
\* returned the error read from the body of the last answer.
C39_Witness ==
    /\ pc[1] = "done" /\ sent[1] = 3 /\ Cfg(1).max_retries = 2
    /\ onlyStatus[1] /\ ~gotToken[1]
    /\ Unwrap(result[1]).tag = "Err"
    /\ Unwrap(result[1]).kind = "Authentication"
    /\ Unwrap(result[1]).message = "msg"
    /\ Unwrap(result[1]).at = 2

====
